---- MODULE Spec2Model ----
(***************************************************************************)
(* Optimistic cache and synchronisation engine of the file picker:         *)
(* the query-client store (sync state, delete queue, optimistic delete     *)
(* registry, optimistic folder registry, root and folder-status caches),   *)
(* the memoised status resolver, the delete-queue drain and the optimistic *)
(* knowledge-base creation with its rollback.                              *)
(*                                                                         *)
(* Strings whose structure the code inspects (paths, names) are sequences  *)
(* of one-character strings, so that split, startsWith and "+" are         *)
(* computed as the code computes them.  The empty sequence stands for the  *)
(* falsy values "", null and undefined.  A knowledge-base id is the pair   *)
(* <<prefix, n>>; the id `temp-<Date.now()>` is <<"temp-", n>>.             *)
(*                                                                         *)
(* A hook reads the store through the values of its last render (`rend`,   *)
(* `view`): a callback created by a render keeps those values until the    *)
(* next render.  Reads through queryClient.getQueryData are live.          *)
(*                                                                         *)
(* The lastUpdated values (Date.now()) are only ever compared for equality *)
(* by the dependency check of the memo-clearing effect.  Time does not go  *)
(* back, so a value is either the one last rendered or a newer one: the    *)
(* model keeps that relation.  A write stamps a newer value, or, within    *)
(* the same millisecond as the previous write, the same value again.       *)
(***************************************************************************)
EXTENDS Naturals, Sequences, FiniteSets, TLC

VARIABLES
    \* ---- query-client store
    delReg,        \* optimistic delete registry: set of file ids (entries' keys)
    delUnseen,     \* its lastUpdated differs from the value the hook last rendered
    ctrUnseen,     \* same for the lastUpdated of the optimistic-update counter
    rafPending,    \* incrementOptimisticUpdateCounter callbacks wait for the next frame
    rootCache,     \* the queries ["kb-resources", kbId]: set of [k, data]
    folderCache,   \* the queries ["kb-file-status", kbId, path]: set of [k, p, data]
    folderReg,     \* optimistic folder registry, entries in insertion order
    syncState,     \* ["sync-state"]: [state, kbId]
    queue,         \* ["delete-queue"].queue
    processing,    \* ["delete-queue"].processing
    driveCache,    \* ["drive-files", folderId]: set of folder ids with a cached listing
    \* ---- the resolver hook instance (useOptimisticRegistry)
    rend,          \* registry entries the hook's last render read from the store
    effPending,    \* the last render changed the memo-clearing effect's dependencies
    memo,          \* statusCacheRef.current: set of [key, val]
    \* ---- useKnowledgeBaseOperations instance
    currentKB,     \* useState currentKB (its id)
    view,          \* values of the last render of useKnowledgeBaseOperations
    drains,        \* the running processQueue calls, each [items, idx, pc]
    creation,      \* the createKB mutation and its context
    bgFetches,     \* background folder fetches started by onMutate, in flight
    toggles,       \* toggleFolder calls waiting for the folder's listing
    expandedFolders,        \* useState expandedFolders of the file tree
    delayedPollingFolders,  \* useState delayedPollingFolders of the file tree
    nextTemp,      \* number of temporary ids handed out
    nextReal,      \* number of knowledge bases the backend created
    \* ---- useKnowledgeBaseStatus instance (root poller)
    pollKb,        \* kbId prop of the hook's last render
    shouldPoll,    \* useState shouldPoll
    pollExpired,   \* Date.now() - pollingStartTime > MAX_POLL_DURATION
    folderPollingActive,    \* some value of folderPollingStatus is true
    seen,          \* dependencies the continue-or-stop effect last ran with
    stopped,       \* why polling was stopped since pollKb last changed, "none" if not
    tick,          \* flips with every root refetch the poller issues
    hasShownErrorToast,     \* useState hasShownErrorToast of usePollingState
    chains,        \* the running pollFolderStatus chains of useFolderPolling
    seenFP,        \* dependencies the start effect of useFolderPolling last ran with
    toasts,        \* the toast.error calls about failed files: set of [kb, scope, n]
    \* ---- useFileTree instance: the per-folder pollers of useStatusPolling
    mountKb,       \* kbId of the first render of useFileTree
    activePolls,   \* activePolls.current: set of folders
    pollQueue,     \* pollQueue.current: folders
    treePolls,     \* pollFolderStatusInternal calls in flight: [folder, cache]
    treeTimers,    \* folders of the reschedule timers that wait
    errorToastShown, \* useState errorToastShown of the file tree
    driveWrites,   \* a setQueryData(["drive-files", id]) call waits for the next frame
    \* ---- prefetch on hover (usePrefetch)
    visibleFolders, \* visibleFolders.current: folders the intersection observer reports in view
    activePrefetches, \* activePrefetches.current: folders with a stored request (controller and timer)
    prefetchTimers, \* folders whose debounce timer of startPrefetch has not fired yet
    requestQueue,  \* requestQueue.current
    activeRequestCount, \* activeRequestCount.current
    prefetches,    \* prefetchFolderContents calls awaiting the Drive listing, in start order
    statusPrefetches, \* folders whose detached status prefetch (idle callback) has not answered
    prefetchMounted, \* the observer effect of usePrefetch is set up (its cleanup has not run)
    \* ---- persistent snapshot store (localStorage)
    storage,       \* the cache snapshot stored last, NoSnapshot if none
    \* ---- observation of the direct deletions
    directCalls,   \* deleteKBResource calls issued by deleteFilesMutation, in order: [kbId, path]
    \* ---- timers of toggleFolder and of the delayed polling effect
    pollTimers,    \* folders whose one-second timer before pollFolderStatus has not fired yet
    \* ---- time since polling of the polled KB was enabled
    kbPollExpired, \* MAX_POLL_DURATION has passed since polling of pollKb was enabled
    \* ---- observation of the backend
    calls,         \* deleteKBResource calls issued by drains, in order: [id, kbId]
    enqueued,      \* ids of the delete requests in the order they were enqueued
    answers,       \* the responses the drains' calls got: set of [id, ok]
    rolledBack     \* temporary ids whose creation failed and was rolled back

vars == <<delReg, delUnseen, ctrUnseen, rafPending, rootCache, folderCache, folderReg,
          syncState, queue, processing, driveCache, rend, effPending, memo,
          currentKB, view, drains, creation, bgFetches, toggles, expandedFolders, delayedPollingFolders, nextTemp, nextReal,
          pollKb, shouldPoll, pollExpired, folderPollingActive, seen, stopped, tick,
          hasShownErrorToast, chains, seenFP, toasts,
          mountKb, activePolls, pollQueue, treePolls, treeTimers, errorToastShown, driveWrites,
          visibleFolders, activePrefetches, prefetchTimers, requestQueue, activeRequestCount, prefetches, statusPrefetches, prefetchMounted,
          storage,
          directCalls,
          pollTimers,
          kbPollExpired,
          calls, enqueued, answers, rolledBack>>

storeVars == <<delReg, delUnseen, ctrUnseen, rafPending, rootCache, folderCache, folderReg>>
resolverVars == <<rend, effPending, memo>>
treeVars == <<toggles, expandedFolders, delayedPollingFolders>>
pollVars == <<pollKb, shouldPoll, pollExpired, folderPollingActive, seen, stopped, tick>>
noteVars == <<hasShownErrorToast, chains, seenFP, toasts>>
tpVars == <<mountKb, activePolls, pollQueue, treePolls, treeTimers, errorToastShown, driveWrites>>
pfVars == <<visibleFolders, activePrefetches, prefetchTimers, requestQueue, activeRequestCount, prefetches, statusPrefetches, prefetchMounted>>
psVars == <<storage>>
dcVars == <<directCalls>>
ttVars == <<pollTimers>>
kcVars == <<kbPollExpired>>
kbVars == <<syncState, queue, processing, driveCache, currentKB, view, drains, creation,
            bgFetches, toggles, expandedFolders, delayedPollingFolders, nextTemp, nextReal,
            pollKb, shouldPoll, pollExpired, folderPollingActive, seen, stopped, tick,
            hasShownErrorToast, chains, seenFP, toasts,
            mountKb, activePolls, pollQueue, treePolls, treeTimers, errorToastShown, driveWrites,
            visibleFolders, activePrefetches, prefetchTimers, requestQueue, activeRequestCount, prefetches, statusPrefetches, prefetchMounted,
            directCalls,
            pollTimers,
            kbPollExpired,
            calls, enqueued, answers, rolledBack>>

----------------------------------------------------------------------------
(* Bounds of the model *)

MaxCreations == 2     \* KB creations attempted in one page session
MaxDrains == 2        \* processQueue calls running at once

----------------------------------------------------------------------------
(* Strings *)

StartsWith(s, pre) == Len(pre) <= Len(s) /\ SubSeq(s, 1, Len(pre)) = pre

RECURSIVE SplitSlash(_)
\* s.split("/"): the segments between the slashes (at least one segment)
SplitSlash(s) ==
    IF \A i \in 1..Len(s) : s[i] # "/" THEN <<s>>
    ELSE LET i == CHOOSE j \in 1..Len(s) :
                     s[j] = "/" /\ \A h \in 1..(j - 1) : s[h] # "/"
         IN <<SubSeq(s, 1, i - 1)>> \o SplitSlash(SubSeq(s, i + 1, Len(s)))

RECURSIVE JoinSlash(_)
\* parts.join("/")
JoinSlash(parts) ==
    IF Len(parts) = 0 THEN <<>>
    ELSE IF Len(parts) = 1 THEN parts[1]
    ELSE parts[1] \o <<"/">> \o JoinSlash(Tail(parts))

Pop(parts) == SubSeq(parts, 1, Len(parts) - 1)

\* folderHelpers: "/" + split("/") without its last part, joined
getFolderPathFromFileName(fileName) == <<"/">> \o JoinSlash(Pop(SplitSlash(fileName)))

\* useOptimisticFolderRegistry: the last part is dropped only if it includes "."
getFolderPathFromName(name) ==
    LET parts == SplitSlash(name)
        last == parts[Len(parts)]
    IN IF \E i \in 1..Len(last) : last[i] = "."
       THEN <<"/">> \o JoinSlash(Pop(parts))
       ELSE <<"/">> \o JoinSlash(parts)

----------------------------------------------------------------------------
(* Identifiers and the remote file source *)

NoKB == <<>>
TempId(n) == <<"temp-", n>>
RealId(n) == <<"kb-", n>>
\* pollingState: kbId?.startsWith('temp-')
IsTemp(id) == id # NoKB /\ id[1] = "temp-"

TempIds == {TempId(n) : n \in 1..MaxCreations}
RealIds == {RealId(n) : n \in 1..MaxCreations}
KbIds == TempIds \cup RealIds

\* The remote source: root files r.t and s.t, folder A holding A/x.t and folder A/B,
\* which holds A/B/y.t, folder Z holding Z/z.t
Files == {"f1", "f2", "f3", "f4", "f5"}
Folders == {"d1", "d2", "d3"}
NameOf(id) ==
    CASE id = "f1" -> <<"r", ".", "t">>
      [] id = "f2" -> <<"A", "/", "x", ".", "t">>
      [] id = "f3" -> <<"s", ".", "t">>
      [] id = "f4" -> <<"A", "/", "B", "/", "y", ".", "t">>
      [] id = "f5" -> <<"Z", "/", "z", ".", "t">>
      [] id = "d1" -> <<"A">>
      [] id = "d2" -> <<"A", "/", "B">>
      [] id = "d3" -> <<"Z">>
TypeOf(id) == IF id \in Folders THEN "directory" ELSE "file"
\* listResources(folderId): the immediate children
ChildrenOf(folderId) ==
    CASE folderId = "d1" -> <<"f2", "d2">>
      [] folderId = "d2" -> <<"f4">>
      [] folderId = "d3" -> <<"f5">>
      [] OTHER -> <<>>

PathRoot == <<"/">>
PathA == <<"/", "A">>
PathAB == <<"/", "A", "/", "B">>
PathAside == <<"/", "A", "B">>
PathZ == <<"/", "Z">>
PathRelAB == <<"A", "/", "B">>
PathABx == <<"/", "A", "/", "B", "/", "x">>
NoPath == <<>>
Paths == {PathRoot, PathA, PathAB, PathAside, PathZ}
LookupPaths == Paths \cup {PathRelAB, NoPath}

Statuses == {"pending", "indexed", "error", "failed", "pending_delete"}
Dash == "-"
Null == "null"

Absent == [present |-> FALSE, data |-> <<>>]
Slot(data) == [present |-> TRUE, data |-> data]
Rec(id, status) == [id |-> id, status |-> status]

----------------------------------------------------------------------------
(* Optimistic folder registry (useOptimisticFolderRegistry) *)

Entry(kbId, folderId, folderPath) ==
    [kbId |-> kbId, folderId |-> folderId, folderPath |-> folderPath]

\* Index of the entry stored under the key `${kbId}-${folderId}`, 0 if none
KeyIndex(entries, kbId, folderId) ==
    IF \E i \in 1..Len(entries) : entries[i].kbId = kbId /\ entries[i].folderId = folderId
    THEN CHOOSE i \in 1..Len(entries) : entries[i].kbId = kbId /\ entries[i].folderId = folderId
    ELSE 0

\* newEntries[entryKey] = {...}: an existing key keeps its place, a new one is appended
PutEntry(entries, e) ==
    LET i == KeyIndex(entries, e.kbId, e.folderId)
    IN IF i = 0 THEN Append(entries, e) ELSE [entries EXCEPT ![i] = e]

RECURSIVE MarkFolders(_, _, _)
\* markFoldersAsOptimisticallyIndexed: one entry per selected folder with a name
MarkFolders(entries, kbId, folderIds) ==
    IF folderIds = <<>> THEN entries
    ELSE LET fid == Head(folderIds)
         IN MarkFolders(PutEntry(entries, Entry(kbId, fid, getFolderPathFromName(NameOf(fid)))),
                        kbId, Tail(folderIds))

\* clearOptimisticFoldersForKB
ClearFoldersForKB(entries, kbId) == SelectSeq(entries, LAMBDA e : e.kbId # kbId)

Normalize(path) == IF StartsWith(path, <<"/">>) THEN path ELSE <<"/">> \o path

\* a mutant of the test: a plain string prefix, without the "/" boundary
PathMatchesPrefix(registeredPath, normalizedTarget) ==
    StartsWith(normalizedTarget, registeredPath)

\* the test both lookups apply to one entry
PathMatches(registeredPath, normalizedTarget) ==
    \/ StartsWith(normalizedTarget, registeredPath \o <<"/">>)
    \/ normalizedTarget = registeredPath

isDescendantOfOptimisticFolder(entries, kbId, targetFolderPath) ==
    IF kbId = NoKB \/ targetFolderPath = NoPath THEN FALSE
    ELSE \E i \in 1..Len(entries) :
            /\ entries[i].kbId = kbId
            /\ PathMatches(entries[i].folderPath, Normalize(targetFolderPath))

\* null of getOptimisticAncestorFolder
NoEntry == Entry(NoKB, "", NoPath)

RECURSIVE AncestorLoop(_, _, _, _)
\* the loop over kbEntries: a matching entry with a strictly longer path replaces bestMatch
AncestorLoop(kbEntries, normalizedTarget, bestMatch, longestMatch) ==
    IF kbEntries = <<>> THEN bestMatch
    ELSE LET entry == Head(kbEntries)
         IN IF PathMatches(entry.folderPath, normalizedTarget)
               /\ Len(entry.folderPath) > longestMatch
            THEN AncestorLoop(Tail(kbEntries), normalizedTarget, entry, Len(entry.folderPath))
            ELSE AncestorLoop(Tail(kbEntries), normalizedTarget, bestMatch, longestMatch)

\* a mutant of getOptimisticAncestorFolder: the first matching entry is returned
getFirstMatchingFolder(entries, kbId, targetFolderPath) ==
    LET hits == SelectSeq(entries, LAMBDA e :
                    e.kbId = kbId /\ PathMatches(e.folderPath, Normalize(targetFolderPath)))
    IN IF kbId = NoKB \/ targetFolderPath = NoPath \/ hits = <<>> THEN NoEntry ELSE Head(hits)

getOptimisticAncestorFolder(entries, kbId, targetFolderPath) ==
    IF kbId = NoKB \/ targetFolderPath = NoPath THEN NoEntry
    ELSE AncestorLoop(SelectSeq(entries, LAMBDA e : e.kbId = kbId),
                      Normalize(targetFolderPath), NoEntry, 0)

----------------------------------------------------------------------------
(* Status resolver (useOptimisticRegistry.resolveFileStatus) *)

Key(fileId, kbId, folderPath) == [f |-> fileId, k |-> kbId, p |-> folderPath]

MemoHas(key) == \E e \in memo : e.key = key
MemoGet(key) == (CHOOSE e \in memo : e.key = key).val

\* queryClient.getQueryData(["kb-resources", kbId])
GetRootCache(kbId) ==
    IF \E e \in rootCache : e.k = kbId
    THEN Slot((CHOOSE e \in rootCache : e.k = kbId).data)
    ELSE Absent

\* queryClient.getQueryData(["kb-file-status", kbId, path])
GetFolderCache(kbId, path) ==
    IF \E e \in folderCache : e.k = kbId /\ e.p = path
    THEN Slot((CHOOSE e \in folderCache : e.k = kbId /\ e.p = path).data)
    ELSE Absent

\* queryClient.setQueryData: the whole value at the key is replaced
SetRoot(cache, kbId, data) == {e \in cache : e.k # kbId} \cup {[k |-> kbId, data |-> data]}
SetFolder(cache, kbId, path, data) ==
    {e \in cache : ~(e.k = kbId /\ e.p = path)} \cup {[k |-> kbId, p |-> path, data |-> data]}

\* localStorage holds no cache snapshot
NoSnapshot ==
    [present |-> FALSE, kbId |-> NoKB, rootResources |-> Absent, folderStatuses |-> {},
     optimisticRegistry |-> {}, optimisticFolderRegistry |-> <<>>]

\* persistCacheToStorage(kbId): the snapshot it hands to saveCacheToStorage, built from
\* the root slot of kbId, the folder-status slots of kbId and both registries as they
\* are in the store (root, fold, del, freg)
persistCacheToStorage(kbId, root, fold, del, freg) ==
    [present |-> TRUE,
     kbId |-> kbId,
     rootResources |-> IF \E e \in root : e.k = kbId
                       THEN Slot((CHOOSE e \in root : e.k = kbId).data)
                       ELSE Absent,
     folderStatuses |-> {e \in fold : e.k = kbId},
     optimisticRegistry |-> del,
     optimisticFolderRegistry |-> freg]

\* getCacheFromStorage: the snapshot saveCacheToStorage stored, as it was stored
getCacheFromStorage == storage

\* data.find((r) => r.id === fileId): index of the first record, 0 if none
FindIndex(data, fileId) ==
    IF \E i \in 1..Len(data) : data[i].id = fileId
    THEN CHOOSE i \in 1..Len(data) :
            data[i].id = fileId /\ \A j \in 1..(i - 1) : data[j].id # fileId
    ELSE 0

\* resource.status === "pending" ? "indexed" : resource.status
DisplayStatus(status) == IF status = "pending" THEN "indexed" ELSE status

\* a mutant of the precedence: the folder-status cache is consulted before the root cache
ComputeStatusSwapped(fileId, kbId, folderPath) ==
    LET root == GetRootCache(kbId).data
        fold == GetFolderCache(kbId, folderPath).data
    IN IF fileId \in rend.delEntries THEN Dash
       ELSE IF kbId # NoKB /\ folderPath # NoPath /\ FindIndex(fold, fileId) # 0
            THEN DisplayStatus(fold[FindIndex(fold, fileId)].status)
       ELSE IF kbId # NoKB /\ FindIndex(root, fileId) # 0
            THEN DisplayStatus(root[FindIndex(root, fileId)].status)
       ELSE IF kbId # NoKB /\ folderPath # NoPath
               /\ isDescendantOfOptimisticFolder(rend.folderEntries, kbId, folderPath)
            THEN "indexed"
       ELSE Null

\* Steps 1-5 of resolveFileStatus, taken when the memo has no entry for the key, in
\* a callback of the render that read the registries r (the caches are read live)
ComputeStatusIn(r, fileId, kbId, folderPath) ==
    LET root == GetRootCache(kbId).data
        fold == GetFolderCache(kbId, folderPath).data
    IN IF fileId \in r.delEntries THEN Dash
       ELSE IF kbId # NoKB /\ FindIndex(root, fileId) # 0
            THEN DisplayStatus(root[FindIndex(root, fileId)].status)
       ELSE IF kbId # NoKB /\ folderPath # NoPath /\ FindIndex(fold, fileId) # 0
            THEN DisplayStatus(fold[FindIndex(fold, fileId)].status)
       ELSE IF kbId # NoKB /\ folderPath # NoPath
               /\ isDescendantOfOptimisticFolder(r.folderEntries, kbId, folderPath)
            THEN "indexed"
       ELSE Null

\* the same steps in a callback of the resolver's last render
ComputeStatus(fileId, kbId, folderPath) == ComputeStatusIn(rend, fileId, kbId, folderPath)

\* The value a call of resolveFileStatus returns in the current state
resolveFileStatus(fileId, kbId, folderPath) ==
    IF MemoHas(Key(fileId, kbId, folderPath))
    THEN MemoGet(Key(fileId, kbId, folderPath))
    ELSE ComputeStatus(fileId, kbId, folderPath)


----------------------------------------------------------------------------
(* Store writers (useDataManager, useCacheOperations) as values *)

\* The listings the backend and the optimistic writers put into a cache slot
RootListings == { <<Rec("f1", "pending")>>, <<Rec("f2", "indexed")>> }
FolderListings == { <<Rec("f2", "indexed"), Rec("f1", "error"), Rec("f1", "indexed")>>,
                    <<Rec("f1", "pending")>> }

\* Render of the component that owns the resolver: useQuery data of both registries
Snapshot == [delEntries |-> delReg, folderEntries |-> folderReg]

\* lastUpdated: Date.now() written over a value: newer, or the same millisecond
Stamped(unseen) == {unseen, TRUE}

\* incrementOptimisticUpdateCounter: the increment is deferred to the next animation
\* frame, in which every callback scheduled so far runs
ScheduleIncrement == rafPending' = TRUE

(* Actions of the resolver and of the store writers it depends on *)

\* markFileAsDeleted (useDataManager/index.ts)
MarkFileAsDeleted(f) ==
    /\ delReg' = delReg \cup {f}
    /\ delUnseen' \in Stamped(delUnseen)
    /\ ScheduleIncrement
    /\ UNCHANGED <<ctrUnseen, rootCache, folderCache, folderReg, resolverVars, kbVars, psVars>>

\* updateKBResourcesCache: write the slot, persist, then schedule the counter increment
UpdateKBResourcesCache(k, data) ==
    /\ rootCache' = SetRoot(rootCache, k, data)
    /\ storage' = persistCacheToStorage(k, rootCache', folderCache, delReg, folderReg)
    /\ ScheduleIncrement
    /\ UNCHANGED <<delReg, delUnseen, ctrUnseen, folderCache, folderReg, resolverVars, kbVars>>

\* updateFolderStatusCache: write the slot and persist (no counter increment)
UpdateFolderStatusCache(k, p, data) ==
    /\ folderCache' = SetFolder(folderCache, k, p, data)
    /\ storage' = persistCacheToStorage(k, rootCache, folderCache', delReg, folderReg)
    /\ UNCHANGED <<delReg, delUnseen, ctrUnseen, rafPending, rootCache, folderReg,
                   resolverVars, kbVars>>

\* markFoldersAsOptimisticallyIndexed
MarkFoldersAsOptimisticallyIndexed(k, folderIds) ==
    /\ folderReg' = MarkFolders(folderReg, k, folderIds)
    /\ UNCHANGED <<delReg, delUnseen, ctrUnseen, rafPending, rootCache, folderCache,
                   resolverVars, kbVars, psVars>>

\* the animation-frame callbacks of incrementOptimisticUpdateCounter
RafFire ==
    /\ rafPending
    /\ rafPending' = FALSE
    /\ ctrUnseen' \in Stamped(ctrUnseen)
    /\ UNCHANGED <<delReg, delUnseen, rootCache, folderCache, folderReg, resolverVars, kbVars, psVars>>

\* A render of the hook (the passive effects of the previous render have run): it
\* reads the registries and hands their lastUpdated values to the effect
Render ==
    /\ ~effPending
    /\ rend # Snapshot \/ delUnseen \/ ctrUnseen
    /\ rend' = Snapshot
    /\ effPending' = (delUnseen \/ ctrUnseen)
    /\ delUnseen' = FALSE
    /\ ctrUnseen' = FALSE
    /\ UNCHANGED <<delReg, rafPending, rootCache, folderCache, folderReg, memo, kbVars, psVars>>

\* useEffect(() => statusCacheRef.current.clear(), [registry.lastUpdated, counter.lastUpdated])
ClearMemoEffect ==
    /\ effPending
    /\ memo' = {}
    /\ effPending' = FALSE
    /\ UNCHANGED <<storeVars, rend, kbVars, psVars>>

\* A call of resolveFileStatus that misses the memo computes and memoises the value
ResolveCall(f, k, p) ==
    /\ ~MemoHas(Key(f, k, p))
    /\ memo' = memo \cup {[key |-> Key(f, k, p), val |-> ComputeStatus(f, k, p)]}
    /\ UNCHANGED <<storeVars, rend, effPending, kbVars, psVars>>

----------------------------------------------------------------------------
(* Initial state: the store as the hooks' initialData build it, nothing rendered
   beyond the first render, no knowledge base *)

IdleCreation ==
    [pc |-> "idle", temp |-> NoKB, real |-> NoKB, sel |-> <<>>, folderFiles |-> <<>>,
     outcome |-> "none"]

\* the state after the first render: kb is the knowledge base found in localStorage,
\* NoKB if there is none
InitWith(kb) ==
    /\ delReg = {}
    /\ delUnseen = FALSE
    /\ ctrUnseen = FALSE
    /\ rafPending = FALSE
    /\ rootCache = {}
    /\ folderCache = {}
    /\ folderReg = <<>>
    /\ syncState = [state |-> "idle", kbId |-> NoKB]
    /\ queue = <<>>
    /\ processing = FALSE
    /\ driveCache = {}
    /\ rend = [delEntries |-> {}, folderEntries |-> <<>>]
    /\ effPending = FALSE
    /\ memo = {}
    /\ currentKB = kb
    /\ view = [sync |-> "idle", queue |-> <<>>, processing |-> FALSE, kb |-> kb]
    /\ drains = <<>>
    /\ creation = IdleCreation
    /\ bgFetches = {}
    /\ toggles = {}
    /\ expandedFolders = {}
    /\ delayedPollingFolders = {}
    /\ nextTemp = 0
    /\ nextReal = IF kb = NoKB THEN 0 ELSE 1
    /\ pollKb = kb
    /\ shouldPoll = TRUE
    /\ pollExpired = FALSE
    /\ folderPollingActive = FALSE
    /\ seen = [data |-> Absent, kb |-> kb, active |-> FALSE, toast |-> FALSE]
    /\ stopped = "none"
    /\ tick = FALSE
    /\ hasShownErrorToast = FALSE
    /\ chains = {}
    /\ seenFP = [folders |-> <<>>, enabled |-> kb # NoKB, kb |-> kb, toast |-> FALSE]
    /\ toasts = {}
    /\ mountKb = kb
    /\ activePolls = {}
    /\ pollQueue = <<>>
    /\ treePolls = <<>>
    /\ treeTimers = <<>>
    /\ errorToastShown = {}
    /\ driveWrites = FALSE
    /\ visibleFolders = {}
    /\ activePrefetches = {}
    /\ prefetchTimers = {}
    /\ requestQueue = <<>>
    /\ activeRequestCount = 0
    /\ prefetches = <<>>
    /\ statusPrefetches = {}
    /\ prefetchMounted = TRUE
    /\ storage = NoSnapshot
    /\ directCalls = <<>>
    /\ pollTimers = {}
    /\ kbPollExpired = FALSE
    /\ calls = <<>>
    /\ enqueued = <<>>
    /\ answers = {}
    /\ rolledBack = {}

\* the application is opened without a stored knowledge base
Init == InitWith(NoKB)

\* the application is opened with the knowledge base of an earlier session
InitStored == InitWith(RealId(1))

----------------------------------------------------------------------------
(* Specification of the resolver: the store writers with inputs from small sets *)

\* the keys resolveFileStatus is called with: rows of the table, and the probe
\* toggleFolder makes with an empty file id
CallKeys ==
    { Key("f1", RealId(1), PathA), Key("f1", RealId(1), NoPath), Key("", RealId(1), PathAB) }

NextResolver ==
    \/ MarkFileAsDeleted("f1")
    \/ \E data \in RootListings : UpdateKBResourcesCache(RealId(1), data)
    \/ \E data \in FolderListings : UpdateFolderStatusCache(RealId(1), PathA, data)
    \/ MarkFoldersAsOptimisticallyIndexed(RealId(1), <<"d1">>)
    \/ MarkFoldersAsOptimisticallyIndexed(TempId(1), <<"d3">>)
    \/ RafFire
    \/ Render
    \/ ClearMemoEffect
    \/ \E c \in CallKeys : ResolveCall(c.f, c.k, c.p)

SpecResolver == Init /\ [][NextResolver]_vars

(* Specification of the folder registry: folders are registered in every order *)

\* clearOptimisticFoldersForKB
ClearOptimisticFoldersForKB(k) ==
    /\ \E i \in 1..Len(folderReg) : folderReg[i].kbId = k
    /\ folderReg' = ClearFoldersForKB(folderReg, k)
    /\ UNCHANGED <<delReg, delUnseen, ctrUnseen, rafPending, rootCache, folderCache,
                   resolverVars, kbVars, psVars>>

\* the paths the registry is asked about
AncestorTargets == LookupPaths \cup {PathABx}

NextRegistry ==
    \/ \E d \in Folders : MarkFoldersAsOptimisticallyIndexed(RealId(1), <<d>>)
    \/ MarkFoldersAsOptimisticallyIndexed(TempId(1), <<"d2">>)
    \/ \E k \in {RealId(1), TempId(1)} : ClearOptimisticFoldersForKB(k)
    \/ Render

SpecRegistry == Init /\ [][NextRegistry]_vars


(* Specification of the registry for folder names in general: a folder of any
   well-formed name is registered under one of two ids *)

\* longest folder name, in characters
MaxNameLen == 3

\* resource names: segments of "a" and "." between single slashes
FolderNames ==
    {n \in UNION {[1..l -> {"a", ".", "/"}] : l \in 1..MaxNameLen} :
        /\ n[1] # "/"
        /\ n[Len(n)] # "/"
        /\ \A i \in 1..(Len(n) - 1) : ~(n[i] = "/" /\ n[i + 1] = "/")}

\* the body of the forEach of markFoldersAsOptimisticallyIndexed for one folder id:
\* a folder with a name in folderNameMap is stored under `${kbId}-${folderId}`
MarkNamedFolder(entries, kbId, folderId, folderName) ==
    IF folderName = <<>> THEN entries
    ELSE PutEntry(entries, Entry(kbId, folderId, getFolderPathFromName(folderName)))

\* markFoldersAsOptimisticallyIndexed(kbId, [folderId], folderNameMap)
RegisterNamedFolder(k, folderId, folderName) ==
    /\ folderReg' = MarkNamedFolder(folderReg, k, folderId, folderName)
    /\ UNCHANGED <<delReg, delUnseen, ctrUnseen, rafPending, rootCache, folderCache,
                   resolverVars, kbVars, psVars>>

NextFolderNames ==
    \E folderId \in {"d1", "d2"} : \E folderName \in FolderNames :
       RegisterNamedFolder(RealId(1), folderId, folderName)

SpecFolderNames == Init /\ [][NextFolderNames]_vars

----------------------------------------------------------------------------
(* Sync state and delete queue (useDataManager/index.ts) *)

\* updateSyncState: kbId: kbId || currentData.kbId
updateSyncState(cur, newState, kbId) ==
    [state |-> newState, kbId |-> IF kbId # NoKB THEN kbId ELSE cur.kbId]
setSyncPending(cur, kbId) == updateSyncState(cur, "pending", kbId)
setSyncCompleted(cur, kbId) == updateSyncState(cur, "synced", kbId)

\* The DeleteRequest queueDeleteRequest builds.  The id is `delete-${fileId}-${Date.now()}`;
\* a file is deleted at most once while the registry holds it, so the file id alone
\* tells two requests apart.
Request(fileId, kbId) ==
    [id |-> <<"delete-", fileId>>, fileId |-> fileId, kbId |-> kbId,
     resourcePath |-> <<"/">> \o NameOf(fileId)]

\* a mutant of queueDeleteRequest: the request is put at the head
queueDeleteRequestAtHead(q, fileId, kbId) == <<Request(fileId, kbId)>> \o q

\* queueDeleteRequest: queue: [...currentData.queue, request]
queueDeleteRequest(q, fileId, kbId) == Append(q, Request(fileId, kbId))

RECURSIVE QueueAll(_, _, _)
\* fileIds.forEach(queueDeleteRequest)
QueueAll(q, fileIds, kbId) ==
    IF fileIds = <<>> THEN q
    ELSE QueueAll(queueDeleteRequest(q, Head(fileIds), kbId), Tail(fileIds), kbId)

\* removeFromQueue: queue.filter((req) => req.id !== requestId)
removeFromQueue(q, requestId) == SelectSeq(q, LAMBDA r : r.id # requestId)

\* a mutant of updateQueueKBId: every request gets the new id
updateQueueKBIdAll(q, oldKbId, newKbId) ==
    [i \in 1..Len(q) |-> [q[i] EXCEPT !.kbId = newKbId]]

\* updateQueueKBId: every request of the old id gets the new id
updateQueueKBId(q, oldKbId, newKbId) ==
    [i \in 1..Len(q) |->
        IF q[i].kbId = oldKbId THEN [q[i] EXCEPT !.kbId = newKbId] ELSE q[i]]

----------------------------------------------------------------------------
(* Delete queue drain (useFileDeletion) *)

\* The values a render of the hook reads: sync state, queue data, currentKB
OpsSnapshot ==
    [sync |-> syncState.state, queue |-> queue, processing |-> processing, kb |-> currentKB]

\* dependency array of the queue effect
EffectDeps(v) == <<v.sync = "synced", Len(v.queue) > 0, v.processing, v.kb>>

\* a mutant of the start condition: the processing flag is not consulted
ShouldProcessIgnoringFlag(v) ==
    /\ v.sync = "synced" /\ Len(v.queue) > 0
    /\ v.kb # NoKB

\* a mutant of the start condition: the sync state is not consulted
ShouldProcessIgnoringSync(v) ==
    /\ Len(v.queue) > 0 /\ ~v.processing
    /\ v.kb # NoKB

\* if (isSyncCompleted && queueHasItems && !queueProcessing) processQueue(), and the
\* guard of processQueue: !currentKB?.id || queueProcessing || !queueHasItems returns
ShouldProcess(v) ==
    /\ v.sync = "synced" /\ Len(v.queue) > 0 /\ ~v.processing
    /\ v.kb # NoKB

\* the arguments of deleteKBResource(request.kbId, request.resourcePath), with the
\* request they are sent for
CallOf(request) == [id |-> request.id, kbId |-> request.kbId, path |-> request.resourcePath]

RemoveAt(seq, i) == SubSeq(seq, 1, i - 1) \o SubSeq(seq, i + 1, Len(seq))

\* a mutant of the catch branch: a failed request stays in the queue
AfterFailureKeep(q, requestId) == q

\* catch: removeFromQueue(request.id)
AfterFailure(q, requestId) == removeFromQueue(q, requestId)

\* a mutant of the success branch: the answered request stays in the queue
AfterSuccessKeep(q, requestId) == q

\* after the awaited call returned: removeFromQueue(request.id)
AfterSuccess(q, requestId) == removeFromQueue(q, requestId)

\* The loop goes on to the next request of the render's queue and issues its call,
\* or ends: finally setQueueProcessing(false)
Continue(i) ==
    LET d == drains[i]
    IN IF d.idx < Len(d.items)
       THEN /\ drains' = [drains EXCEPT ![i] = [d EXCEPT !.idx = d.idx + 1, !.pc = "call"]]
            /\ calls' = Append(calls, CallOf(d.items[d.idx + 1]))
            /\ processing' = processing
       ELSE /\ drains' = RemoveAt(drains, i)
            /\ calls' = calls
            /\ processing' = FALSE

\* A render of the hook whose queue effect does not start processQueue
RenderOps ==
    /\ view # OpsSnapshot
    /\ ~(EffectDeps(OpsSnapshot) # EffectDeps(view) /\ ShouldProcess(OpsSnapshot))
    /\ view' = OpsSnapshot
    /\ UNCHANGED <<storeVars, resolverVars, syncState, queue, processing, driveCache,
                   currentKB, drains, creation, bgFetches, treeVars, pollVars, nextTemp, nextReal, calls,
                   enqueued, answers, rolledBack, noteVars, tpVars, pfVars, psVars, dcVars, ttVars, kcVars>>

\* A render whose queue effect runs processQueue: setQueueProcessing(true), then the
\* call for the first request of the rendered queue is issued
RenderStartsDrain ==
    /\ EffectDeps(OpsSnapshot) # EffectDeps(view)
    /\ ShouldProcess(OpsSnapshot)
    /\ Len(drains) < MaxDrains
    /\ view' = OpsSnapshot
    /\ processing' = TRUE
    /\ drains' = Append(drains, [items |-> queue, idx |-> 1, pc |-> "call"])
    /\ calls' = Append(calls, CallOf(queue[1]))
    /\ UNCHANGED <<storeVars, resolverVars, syncState, queue, driveCache, currentKB,
                   creation, bgFetches, treeVars, pollVars, nextTemp, nextReal, enqueued, answers, rolledBack, noteVars, tpVars, pfVars, psVars, dcVars, ttVars, kcVars>>

\* deleteKBResource resolved: the request leaves the queue; with more than one
\* request in the rendered queue the loop waits a second before it goes on
DeleteSucceeded(i) ==
    LET d == drains[i]
    IN /\ d.pc = "call"
       /\ queue' = AfterSuccess(queue, d.items[d.idx].id)
       /\ answers' = answers \cup {[id |-> d.items[d.idx].id, ok |-> TRUE]}
       /\ IF Len(d.items) > 1
          THEN /\ drains' = [drains EXCEPT ![i] = [d EXCEPT !.pc = "delay"]]
               /\ UNCHANGED <<calls, processing, noteVars, tpVars, pfVars, psVars, dcVars, ttVars, kcVars>>
          ELSE Continue(i)
       /\ UNCHANGED <<storeVars, resolverVars, syncState, driveCache, currentKB, view,
                      creation, bgFetches, treeVars, pollVars, nextTemp, nextReal, enqueued, rolledBack, noteVars, tpVars, pfVars, psVars, dcVars, ttVars, kcVars>>

\* deleteKBResource rejected: the request leaves the queue and the loop goes on
DeleteFailed(i) ==
    LET d == drains[i]
    IN /\ d.pc = "call"
       /\ queue' = AfterFailure(queue, d.items[d.idx].id)
       /\ answers' = answers \cup {[id |-> d.items[d.idx].id, ok |-> FALSE]}
       /\ Continue(i)
       /\ UNCHANGED <<storeVars, resolverVars, syncState, driveCache, currentKB, view,
                      creation, bgFetches, treeVars, pollVars, nextTemp, nextReal, enqueued, rolledBack, noteVars, tpVars, pfVars, psVars, dcVars, ttVars, kcVars>>

\* the one-second timer between two deletions fired
DelayElapsed(i) ==
    /\ drains[i].pc = "delay"
    /\ Continue(i)
    /\ UNCHANGED <<storeVars, resolverVars, syncState, queue, driveCache, currentKB, view,
                   creation, bgFetches, treeVars, pollVars, nextTemp, nextReal, enqueued, answers, rolledBack, noteVars, tpVars, pfVars, psVars, dcVars, ttVars, kcVars>>

\* a mutant of the filter: the selected records stay in the data
WithoutIdsKeep(data, ids) == data

\* currentKBData.data.filter((resource) => !selectedIds.includes(resource.id))
WithoutIds(data, ids) == SelectSeq(data, LAMBDA r : \A j \in 1..Len(ids) : ids[j] # r.id)

\* steps 1 and 2 of deleteSelectedFiles: the registry, then the root cache of the KB
MarkAndFilter(ids) ==
    /\ delReg' = delReg \cup {ids[j] : j \in 1..Len(ids)}
    /\ delUnseen' \in Stamped(delUnseen)
    /\ ScheduleIncrement
    /\ rootCache' = IF GetRootCache(view.kb).present
                    THEN SetRoot(rootCache, view.kb, WithoutIds(GetRootCache(view.kb).data, ids))
                    ELSE rootCache
    /\ UNCHANGED <<ctrUnseen, folderCache, folderReg, noteVars, tpVars, pfVars, psVars, ttVars, kcVars>>

\* The selections the table offers for deletion: files not shown as deleted
DeleteChoices == { <<"f1">>, <<"f3", "f2">> }

\* deleteSelectedFiles while the sync is pending: the requests are queued
DeleteWhilePending(ids) ==
    /\ view = OpsSnapshot
    /\ view.kb # NoKB
    /\ view.sync = "pending"
    /\ \A j \in 1..Len(ids) : ids[j] \notin delReg
    /\ MarkAndFilter(ids)
    /\ queue' = QueueAll(queue, ids, view.kb)
    /\ enqueued' = enqueued \o [j \in 1..Len(ids) |-> Request(ids[j], view.kb).id]
    /\ UNCHANGED <<resolverVars, syncState, processing, driveCache, currentKB, view, drains,
                   creation, bgFetches, treeVars, pollVars, nextTemp, nextReal, calls, answers, rolledBack, noteVars, tpVars, pfVars, psVars, dcVars, ttVars, kcVars>>

\* mutationFn of deleteFilesMutation: fileIds.map(deleteKBResource(currentKB.id, `/${file.name}`))
DirectCallsOf(ids, kbId) ==
    [j \in 1..Len(ids) |-> [kbId |-> kbId, path |-> <<"/">> \o NameOf(ids[j])]]

\* deleteSelectedFiles otherwise: deleteFilesMutation sends the deletions at once
DeleteDirect(ids) ==
    /\ view = OpsSnapshot
    /\ view.kb # NoKB
    /\ view.sync # "pending"
    /\ \A j \in 1..Len(ids) : ids[j] \notin delReg
    /\ MarkAndFilter(ids)
    /\ directCalls' = directCalls \o DirectCallsOf(ids, view.kb)
    /\ UNCHANGED <<resolverVars, syncState, queue, processing, driveCache, currentKB, view,
                   drains, creation, bgFetches, treeVars, pollVars, nextTemp, nextReal,
                   calls, enqueued, answers, rolledBack, ttVars, kcVars>>

----------------------------------------------------------------------------
(* Optimistic knowledge-base creation (kbCreation.ts) *)

SelectedFolders(sel) == SelectSeq(sel, LAMBDA id : TypeOf(id) = "directory")
SelectedFiles(sel) == SelectSeq(sel, LAMBDA id : TypeOf(id) = "file")

\* every fetched FileItem becomes a record with status "indexed"
IndexedRecs(fileIds) == [j \in 1..Len(fileIds) |-> Rec(fileIds[j], "indexed")]

\* the `files` the table hands to the hooks
AllFiles == <<"f1", "f3", "d1", "d3", "f2", "d2">>

\* allFiles.filter: name starts with the directory's name + "/" and is one level deeper
ChildFiles(dirId, allFiles) ==
    SelectSeq(allFiles, LAMBDA id :
        /\ StartsWith(NameOf(id), NameOf(dirId) \o <<"/">>)
        /\ Len(SplitSlash(NameOf(id))) = Len(SplitSlash(NameOf(dirId))) + 1)

RECURSIVE getAllDescendantFileIds(_, _)
\* processFiles: a file gives its id, a directory the ids below it in allFiles
getAllDescendantFileIds(parentFiles, allFiles) ==
    IF parentFiles = <<>> THEN <<>>
    ELSE LET file == Head(parentFiles)
             own == IF TypeOf(file) = "file" THEN <<file>>
                    ELSE getAllDescendantFileIds(ChildFiles(file, allFiles), allFiles)
         IN own \o getAllDescendantFileIds(Tail(parentFiles), allFiles)

\* queryClient.getQueryData(["drive-files", folderId])?.data
DriveData(folderId) == IF folderId \in driveCache THEN ChildrenOf(folderId) ELSE <<>>

\* { folderId, folderPath, fileIds } of a folder whose listing is at hand
FolderFilesOf(folderId, contents) ==
    [folderId |-> folderId,
     folderPath |-> getFolderPathFromFileName(NameOf(Head(contents))),
     fileIds |-> getAllDescendantFileIds(contents, AllFiles)]

RECURSIVE CachedFolderFiles(_)
\* the loop over selectedFolders: the cached folders that have files
CachedFolderFiles(folderIds) ==
    IF folderIds = <<>> THEN <<>>
    ELSE LET fid == Head(folderIds)
             rest == CachedFolderFiles(Tail(folderIds))
         IN IF Len(DriveData(fid)) > 0
                /\ Len(FolderFilesOf(fid, DriveData(fid)).fileIds) > 0
            THEN <<FolderFilesOf(fid, DriveData(fid))>> \o rest
            ELSE rest

UncachedFolderIds(folderIds) ==
    {folderIds[j] : j \in {h \in 1..Len(folderIds) : Len(DriveData(folderIds[h])) = 0}}

RECURSIVE WriteFolderFiles(_, _, _)
\* cachedFolderFiles.forEach(updateFolderStatusCache(kbId, folderPath, indexed records))
WriteFolderFiles(cache, kbId, ffs) ==
    IF ffs = <<>> THEN cache
    ELSE WriteFolderFiles(SetFolder(cache, kbId, Head(ffs).folderPath,
                                    IndexedRecs(Head(ffs).fileIds)),
                          kbId, Tail(ffs))

RECURSIVE TransferFolderFiles(_, _, _, _)
\* context.folderFiles.forEach: a temp slot that exists is copied under the real id
TransferFolderFiles(cache, tempId, realId, ffs) ==
    IF ffs = <<>> THEN cache
    ELSE LET p == Head(ffs).folderPath
             next == IF \E e \in cache : e.k = tempId /\ e.p = p
                     THEN SetFolder(cache, realId, p,
                                    (CHOOSE e \in cache : e.k = tempId /\ e.p = p).data)
                     ELSE cache
         IN TransferFolderFiles(next, tempId, realId, Tail(ffs))

\* queryClient.removeQueries of the root slot and of every folder-status slot of a KB
RemoveRootOf(cache, kbId) == {e \in cache : e.k # kbId}
RemoveFoldersOf(cache, kbId) == {e \in cache : e.k # kbId}

\* The selections createKnowledgeBaseWithFiles is called with
SelChoices == { <<"f1">>, <<"f1", "d1">> }

\* toggleFolder / prefetch: the listing of a folder enters the drive cache
FetchFolderContents(folderId) ==
    /\ folderId \notin driveCache
    /\ Len(ChildrenOf(folderId)) > 0
    /\ driveCache' = driveCache \cup {folderId}
    /\ UNCHANGED <<storeVars, resolverVars, syncState, queue, processing, currentKB, view,
                   drains, creation, bgFetches, treeVars, pollVars, nextTemp, nextReal, calls, enqueued, answers,
                   rolledBack, noteVars, tpVars, pfVars, psVars, dcVars, ttVars, kcVars>>

\* createKnowledgeBaseWithFiles -> createKBMutation.mutate: onMutate runs, then
\* mutationFn sends createKnowledgeBase.  The creation form is offered while there is
\* no knowledge base and no creation in flight.  The cache updaters persist a snapshot:
\* the root update before the folders are registered, each folder update after it.
OnMutate(sel) ==
    LET temp == TempId(nextTemp + 1)
        folders == SelectedFolders(sel)
        cached == CachedFolderFiles(folders)
    IN /\ creation.pc = "idle"
       /\ view = OpsSnapshot
       /\ view.kb = NoKB
       /\ \A t \in toggles : t.folderId \notin UncachedFolderIds(folders)
       /\ nextTemp < MaxCreations
       /\ nextTemp' = nextTemp + 1
       /\ currentKB' = temp
       /\ syncState' = setSyncPending(syncState, temp)
       /\ rootCache' = SetRoot(rootCache, temp, IndexedRecs(SelectedFiles(sel)))
       /\ ScheduleIncrement
       /\ folderReg' = IF Len(folders) > 0 THEN MarkFolders(folderReg, temp, folders)
                       ELSE folderReg
       /\ folderCache' = WriteFolderFiles(folderCache, temp, cached)
       /\ storage' = IF cached = <<>>
                     THEN persistCacheToStorage(temp, rootCache', folderCache, delReg, folderReg)
                     ELSE persistCacheToStorage(temp, rootCache', folderCache', delReg, folderReg')
       /\ bgFetches' = bgFetches \cup
                          {[folderId |-> fid, temp |-> temp] : fid \in UncachedFolderIds(folders)}
       /\ creation' = [pc |-> "creating", temp |-> temp, real |-> NoKB, sel |-> sel,
                       folderFiles |-> cached, outcome |-> "none"]
       /\ UNCHANGED <<delReg, delUnseen, ctrUnseen, resolverVars, queue, processing,
                      driveCache, view, drains, treeVars, pollVars, nextReal, calls, enqueued, answers, rolledBack, noteVars, tpVars, pfVars, dcVars, ttVars, kcVars>>

\* createKnowledgeBase resolved: the backend made the KB, syncKnowledgeBase is sent
CreateResolved ==
    /\ creation.pc = "creating"
    /\ nextReal' = nextReal + 1
    /\ creation' = [creation EXCEPT !.pc = "syncing", !.real = RealId(nextReal + 1)]
    /\ UNCHANGED <<storeVars, resolverVars, syncState, queue, processing, driveCache,
                   currentKB, view, drains, bgFetches, treeVars, pollVars, nextTemp, calls, enqueued, answers, rolledBack, noteVars, tpVars, pfVars, psVars, dcVars, ttVars, kcVars>>

\* onSuccess
OnSuccess ==
    LET temp == creation.temp
        real == creation.real
        folders == SelectedFolders(creation.sel)
    IN /\ creation.pc = "syncing"
       /\ syncState' = setSyncCompleted(syncState, real)
       /\ queue' = updateQueueKBId(queue, temp, real)
       /\ currentKB' = real
       /\ rootCache' = RemoveRootOf(IF GetRootCache(temp).present
                                    THEN SetRoot(rootCache, real, GetRootCache(temp).data)
                                    ELSE rootCache, temp)
       /\ folderReg' = IF Len(folders) > 0
                       THEN MarkFolders(ClearFoldersForKB(folderReg, temp), real, folders)
                       ELSE folderReg
       /\ folderCache' = RemoveFoldersOf(
                            TransferFolderFiles(folderCache, temp, real, creation.folderFiles),
                            temp)
       /\ creation' = [creation EXCEPT !.pc = "idle", !.outcome = "committed"]
       /\ UNCHANGED <<delReg, delUnseen, ctrUnseen, rafPending, resolverVars, processing,
                      driveCache, view, drains, bgFetches, treeVars, pollVars, nextTemp, nextReal, calls,
                      enqueued, answers, rolledBack, noteVars, tpVars, pfVars, psVars, dcVars, ttVars, kcVars>>

\* onError, after createKnowledgeBase or syncKnowledgeBase rejected:
\* setCurrentKB(context.previousKB), setSyncCompleted(""), removeQueries of the temp id
OnError ==
    /\ creation.pc \in {"creating", "syncing"}
    /\ currentKB' = NoKB
    /\ syncState' = setSyncCompleted(syncState, NoKB)
    /\ rootCache' = RemoveRootOf(rootCache, creation.temp)
    /\ folderCache' = RemoveFoldersOf(folderCache, creation.temp)
    /\ rolledBack' = rolledBack \cup {creation.temp}
    /\ creation' = [creation EXCEPT !.pc = "idle", !.outcome = "rolledBack"]
    /\ UNCHANGED <<delReg, delUnseen, ctrUnseen, rafPending, folderReg, resolverVars, queue,
                   processing, driveCache, view, drains, bgFetches, treeVars, pollVars, nextTemp, nextReal,
                   calls, enqueued, answers, noteVars, tpVars, pfVars, psVars, dcVars, ttVars, kcVars>>

\* A background fetch of onMutate returned the listing of its folder: rolling update
\* under optimisticKB.id, and the folder joins the array onMutate returned as
\* context.folderFiles
BgFetchResolved(b) ==
    LET contents == ChildrenOf(b.folderId)
        ff == FolderFilesOf(b.folderId, contents)
        writes == Len(contents) > 0 /\ Len(ff.fileIds) > 0
    IN /\ b \in bgFetches
       /\ bgFetches' = bgFetches \ {b}
       /\ driveCache' = driveCache \cup {b.folderId}
       /\ folderCache' = IF writes
                         THEN SetFolder(folderCache, b.temp, ff.folderPath, IndexedRecs(ff.fileIds))
                         ELSE folderCache
       /\ storage' = IF writes
                     THEN persistCacheToStorage(b.temp, rootCache, folderCache', delReg, folderReg)
                     ELSE storage
       /\ creation' = IF writes /\ creation.temp = b.temp
                      THEN [creation EXCEPT !.folderFiles = Append(@, ff)]
                      ELSE creation
       /\ UNCHANGED <<delReg, delUnseen, ctrUnseen, rafPending, rootCache, folderReg,
                      resolverVars, syncState, queue, processing, currentKB, view, drains,
                      treeVars, pollVars, nextTemp, nextReal, calls, enqueued, answers, rolledBack, noteVars, tpVars, pfVars, dcVars, ttVars, kcVars>>

\* the fetch failed: the catch logs and nothing is written
BgFetchRejected(b) ==
    /\ b \in bgFetches
    /\ bgFetches' = bgFetches \ {b}
    /\ UNCHANGED <<storeVars, resolverVars, syncState, queue, processing, driveCache,
                   currentKB, view, drains, creation, treeVars, pollVars, nextTemp, nextReal, calls,
                   enqueued, answers,
                   rolledBack, noteVars, tpVars, pfVars, psVars, dcVars, ttVars, kcVars>>

----------------------------------------------------------------------------
(* Folder expansion while a creation is in flight (useFileTree/folderOperations.ts) *)

\* getFolderPath: "" for an empty listing, else the folder path of its first file
getFolderPath(contents) ==
    IF Len(contents) = 0 THEN NoPath ELSE getFolderPathFromFileName(NameOf(Head(contents)))

\* toggleFolder of an expanded folder: it is collapsed
CollapseFolder(folderId) ==
    /\ folderId \in expandedFolders
    /\ expandedFolders' = expandedFolders \ {folderId}
    /\ UNCHANGED <<storeVars, resolverVars, syncState, queue, processing, driveCache,
                   currentKB, view, drains, creation, bgFetches, toggles,
                   delayedPollingFolders, nextTemp, pollVars, nextReal, calls, enqueued, answers,
                   rolledBack, noteVars, tpVars, pfVars, psVars, dcVars, ttVars, kcVars>>

\* toggleFolder of a collapsed folder, before there is a knowledge base or while
\* createKBMutation is pending: the listing is fetched; the callback keeps kbId and the
\* resolver of the render it was made in.  The row of a folder is on screen when the
\* folders above it are expanded.  A fetch of a listing that a background fetch is
\* loading would join that fetch.
ToggleFolder(folderId) ==
    /\ folderId \notin expandedFolders
    /\ \A d \in Folders : StartsWith(NameOf(folderId), NameOf(d) \o <<"/">>)
                              => d \in expandedFolders
    /\ creation.pc # "idle" \/ view.kb = NoKB
    /\ view = OpsSnapshot
    /\ \A t \in toggles : t.folderId # folderId
    /\ \A b \in bgFetches : b.folderId # folderId
    /\ toggles' = toggles \cup {[folderId |-> folderId, kbId |-> view.kb, reg |-> Snapshot,
                             creating |-> creation.pc # "idle", pc |-> "drive"]}
    /\ UNCHANGED <<storeVars, resolverVars, syncState, queue, processing, driveCache,
                   currentKB, view, drains, creation, bgFetches, expandedFolders,
                   delayedPollingFolders, nextTemp, pollVars, nextReal, calls, enqueued, answers,
                   rolledBack, noteVars, tpVars, pfVars, psVars, dcVars, ttVars, kcVars>>

\* The listing arrived.  With a kbId and a non-empty listing the folder is probed with
\* resolveFileStatus("", kbId, folderPath).  If that is "indexed" the files of the
\* listing are written as indexed, and pollFolderStatus is called a second later or,
\* under isCreatingKB, the folder's polling is deferred.  If it is not, and no creation
\* is in flight, the callback awaits fetchKBStatusForFolder before it expands the folder.
ToggleFolderFetched(t) ==
    LET contents == ChildrenOf(t.folderId)
        folderPath == getFolderPath(contents)
        key == Key("", t.kbId, folderPath)
        probe == IF MemoHas(key) THEN MemoGet(key)
                 ELSE ComputeStatusIn(t.reg, "", t.kbId, folderPath)
        optimistic == t.kbId # NoKB /\ Len(contents) > 0 /\ probe = "indexed"
        awaitsStatus == t.kbId # NoKB /\ Len(contents) > 0 /\ probe # "indexed" /\ ~t.creating
    IN /\ t \in toggles
       /\ t.pc = "drive"
       /\ toggles' = IF awaitsStatus THEN (toggles \ {t}) \cup {[t EXCEPT !.pc = "status"]}
                     ELSE toggles \ {t}
       /\ driveCache' = driveCache \cup {t.folderId}
       /\ memo' = IF t.kbId # NoKB /\ Len(contents) > 0 /\ ~MemoHas(key)
                  THEN memo \cup {[key |-> key, val |-> probe]}
                  ELSE memo
       /\ folderCache' = IF optimistic
                         THEN SetFolder(folderCache, t.kbId, folderPath,
                                        IndexedRecs(SelectedFiles(contents)))
                         ELSE folderCache
       /\ delayedPollingFolders' = IF optimistic /\ t.creating
                                   THEN delayedPollingFolders \cup {t.folderId}
                                   ELSE delayedPollingFolders
       /\ pollTimers' = IF optimistic /\ ~t.creating THEN pollTimers \cup {t.folderId}
                        ELSE pollTimers
       /\ expandedFolders' = IF awaitsStatus THEN expandedFolders
                             ELSE expandedFolders \cup {t.folderId}
       /\ UNCHANGED <<delReg, delUnseen, ctrUnseen, rafPending, rootCache, folderReg, rend,
                      effPending, syncState, queue, processing, currentKB, view, drains,
                      creation, bgFetches, nextTemp, pollVars, nextReal, calls, enqueued, answers,
                      rolledBack, noteVars, tpVars, pfVars, psVars, dcVars, kcVars>>

\* the listing could not be fetched: the folder is shown expanded, nothing is written
ToggleFolderFailed(t) ==
    /\ t \in toggles
    /\ t.pc = "drive"
    /\ t.folderId \notin driveCache
    /\ toggles' = toggles \ {t}
    /\ expandedFolders' = expandedFolders \cup {t.folderId}
    /\ UNCHANGED <<storeVars, resolverVars, syncState, queue, processing, driveCache,
                   currentKB, view, drains, creation, bgFetches, delayedPollingFolders,
                   nextTemp, pollVars, nextReal, calls, enqueued, answers, rolledBack, noteVars, tpVars, pfVars, psVars, dcVars, ttVars, kcVars>>

----------------------------------------------------------------------------
(* Specification of the creation and of the delete queue *)

Next ==
    \/ \E sel \in SelChoices : OnMutate(sel)
    \/ CreateResolved
    \/ OnSuccess
    \/ OnError
    \/ \E b \in bgFetches : BgFetchResolved(b)
    \/ \E b \in bgFetches : BgFetchRejected(b)
    \/ FetchFolderContents("d1")
    \/ \E ids \in DeleteChoices : DeleteWhilePending(ids)
    \/ \E ids \in DeleteChoices : DeleteDirect(ids)
    \/ RenderOps
    \/ RenderStartsDrain
    \/ \E i \in 1..Len(drains) : DeleteSucceeded(i)
    \/ \E i \in 1..Len(drains) : DeleteFailed(i)
    \/ \E i \in 1..Len(drains) : DelayElapsed(i)

Spec == Init /\ [][Next]_vars

(* Specification of the creation with folders expanded while it is in flight *)

NextCommit ==
    \/ \E sel \in SelChoices : OnMutate(sel)
    \/ CreateResolved
    \/ OnSuccess
    \/ OnError
    \/ \E b \in bgFetches : BgFetchResolved(b)
    \/ \E b \in bgFetches : BgFetchRejected(b)
    \/ FetchFolderContents("d1")
    \/ RenderOps
    \/ \E d \in {"d1", "d2"} : ToggleFolder(d)
    \/ \E d \in {"d1", "d2"} : CollapseFolder(d)
    \/ \E t \in toggles : ToggleFolderFetched(t)
    \/ \E t \in toggles : ToggleFolderFailed(t)

SpecCommit == Init /\ [][NextCommit]_vars

----------------------------------------------------------------------------
(* Root poller (useKnowledgeBaseStatus, usePollingState, useStatusFiltering) *)

\* filterPollingResponse: the records of files in the optimistic delete registry are
\* left out
filterPollingResponse(data) == SelectSeq(data, LAMBDA r : r.id \notin delReg)

\* useQuery(["kb-resources", kbId]).data of the hook's last render
kbResources == GetRootCache(pollKb)

filteredKbResources ==
    IF kbResources.present THEN Slot(filterPollingResponse(kbResources.data)) ELSE Absent

\* resources.filter((item) => item.type === "file")
FileRecords(data) == SelectSeq(data, LAMBDA r : TypeOf(r.id) = "file")

\* checkUnsettledFiles.hasUnsettledFiles: some file is pending or pending_delete
hasUnsettledFiles(data) ==
    \E i \in 1..Len(FileRecords(data)) :
       FileRecords(data)[i].status \in {"pending", "pending_delete"}

\* allFilesSettled of useStatusFiltering
allFilesSettled ==
    IF ~filteredKbResources.present THEN FALSE
    ELSE LET files == FileRecords(filteredKbResources.data)
         IN IF Len(files) = 0 THEN TRUE
            ELSE /\ \A i \in 1..Len(files) : files[i].status \in {"indexed", "error"}
                 /\ ~folderPollingActive

\* a mutant of shouldEnablePolling: a temporary id is polled as well
shouldEnablePollingAnyId(kbId, poll) == kbId # NoKB /\ poll

\* shouldEnablePolling = enabled && !!kbId && !isTemporaryKB && shouldPoll, where the
\* caller passes enabled = hasKB
shouldEnablePolling(kbId, poll) == kbId # NoKB /\ ~IsTemp(kbId) /\ poll

\* dependencies of the continue-or-stop effect
\* (checkUnsettledFiles is a memo on the data and on hasShownErrorToast)
PollerDeps ==
    [data |-> filteredKbResources, kb |-> pollKb, active |-> folderPollingActive,
     toast |-> hasShownErrorToast]

\* the scope of the notification of the root settlement check (toastId kb-error-toast);
\* the scope of a folder is its path
RootScope == <<"root">>

\* the toast.error calls of one scope are counted up to this number
MaxToasts == 2

\* number of toast.error calls about the failed files of a scope of a knowledge base
ToastCount(t, kbId, scope) ==
    IF \E e \in t : e.kb = kbId /\ e.scope = scope
    THEN (CHOOSE e \in t : e.kb = kbId /\ e.scope = scope).n
    ELSE 0

\* toast.error(...) about the failed files of a scope of a knowledge base
Notify(kbId, scope) ==
    LET n == ToastCount(toasts, kbId, scope)
    IN {e \in toasts : ~(e.kb = kbId /\ e.scope = scope)}
          \cup {[kb |-> kbId, scope |-> scope, n |-> IF n < MaxToasts THEN n + 1 ELSE n]}

\* indexedFolders of useKBState: set by onMutate and onSuccess, emptied by onError
indexedFolders ==
    IF creation.pc = "idle" /\ creation.outcome = "rolledBack" THEN <<>> ELSE creation.folderFiles

\* dependencies of the start effect of useFolderPolling; pollFolderStatus is a callback
\* on kbId, shouldEnablePolling and hasShownErrorToast
FolderPollDeps(poll, toast) ==
    [folders |-> indexedFolders, enabled |-> shouldEnablePolling(pollKb, poll),
     kb |-> pollKb, toast |-> toast]

\* the chains the start effect starts: one per indexed folder that has files, each a
\* call of the pollFolderStatus of that render
StartedChains(kbId, toast) ==
    { [path |-> indexedFolders[i].folderPath, ids |-> indexedFolders[i].fileIds,
       kb |-> kbId, shown |-> toast] :
         i \in {j \in 1..Len(indexedFolders) : Len(indexedFolders[j].fileIds) > 0} }

\* what the backend may list at the root of a knowledge base
PollListings ==
    { <<>>,
      <<Rec("d1", "unknown")>>,
      <<Rec("f1", "pending")>>,
      <<Rec("f1", "indexed")>>,
      <<Rec("f1", "error")>>,
      <<Rec("f1", "failed")>>,
      <<Rec("f1", "indexed"), Rec("d1", "unknown"), Rec("f3", "pending_delete")>> }

\* The hook renders with a new kbId prop and the effects whose dependencies changed run
\* in the order of their declaration: the start effect of useFolderPolling with the
\* values of this render, then the effects on [kbId]: setShouldPoll(true),
\* setHasShownErrorToast(false) and setFolderPollingStatus(new Map()) for a kbId that
\* is not null.  The last setFolderPollingStatus of the commit is the one that stays.
PollerKbChanged ==
    LET en == shouldEnablePolling(currentKB, shouldPoll)
        starts == en /\ Len(indexedFolders) > 0
    IN /\ pollKb # currentKB
       /\ pollKb' = currentKB
       /\ shouldPoll' = IF currentKB # NoKB THEN TRUE ELSE shouldPoll
       /\ hasShownErrorToast' = IF currentKB # NoKB THEN FALSE ELSE hasShownErrorToast
       /\ chains' = IF starts THEN chains \cup StartedChains(currentKB, hasShownErrorToast)
                     ELSE chains
       /\ folderPollingActive' = IF currentKB # NoKB THEN FALSE ELSE folderPollingActive
       /\ seenFP' = [folders |-> indexedFolders, enabled |-> en, kb |-> currentKB,
                      toast |-> hasShownErrorToast]
       /\ stopped' = "none"
       /\ kbPollExpired' = FALSE
       /\ UNCHANGED <<storeVars, resolverVars, syncState, queue, processing, driveCache,
                      currentKB, view, drains, creation, bgFetches, treeVars, nextTemp,
                      nextReal, pollExpired, seen, tick, toasts, calls, enqueued, answers,
                      rolledBack, tpVars, pfVars, psVars, dcVars, ttVars>>

\* refetchInterval fires while the query is enabled: listKBResources(kbId) answers and
\* the listing becomes the data of ["kb-resources", kbId]
RootRefetch(data) ==
    /\ pollKb = currentKB
    /\ shouldEnablePolling(pollKb, shouldPoll)
    /\ rootCache' = SetRoot(rootCache, pollKb, data)
    /\ tick' = ~tick
    /\ UNCHANGED <<delReg, delUnseen, ctrUnseen, rafPending, folderCache, folderReg,
                   resolverVars, syncState, queue, processing, driveCache, currentKB, view,
                   drains, creation, bgFetches, treeVars, nextTemp, nextReal, pollKb,
                   shouldPoll, pollExpired, folderPollingActive, seen, stopped, calls,
                   enqueued, answers, rolledBack, noteVars, tpVars, pfVars, psVars, dcVars, ttVars, kcVars>>

\* refetchInterval fires while the query is enabled and listKBResources(kbId) rejects:
\* the query keeps the data it had
RootRefetchFailed ==
    /\ pollKb = currentKB
    /\ shouldEnablePolling(pollKb, shouldPoll)
    /\ tick' = ~tick
    /\ UNCHANGED <<storeVars, resolverVars, syncState, queue, processing, driveCache,
                   currentKB, view, drains, creation, bgFetches, treeVars, nextTemp, nextReal,
                   pollKb, shouldPoll, pollExpired, folderPollingActive, seen, stopped,
                   calls, enqueued, answers, rolledBack, noteVars, tpVars, pfVars, psVars, dcVars, ttVars, kcVars>>

\* the reason the effect stops polling for, "none" if it lets polling go on
StopReason ==
    LET resources == filteredKbResources.data
    IN IF pollKb = NoKB \/ ~filteredKbResources.present THEN "none"
       ELSE IF pollExpired THEN "timeout"
       ELSE IF Len(resources) = 0 THEN "empty"
       ELSE IF Len(FileRecords(resources)) = 0 THEN "nofiles"
       ELSE IF ~hasUnsettledFiles(resources) /\ ~folderPollingActive THEN "settled"
       ELSE "none"

\* checkUnsettledFiles: errorFiles.length > 0 for the files with status "error"
hasErrorFiles(data) ==
    \E i \in 1..Len(FileRecords(data)) : FileRecords(data)[i].status = "error"

\* A render of the hook in which the listing or hasShownErrorToast changed: the memo
\* checkUnsettledFiles is computed (with its toast and setHasShownErrorToast(true)) and
\* the effect "determine if polling should continue" runs
ContinueOrStopEffect ==
    LET emits == /\ filteredKbResources.present
                 /\ hasErrorFiles(filteredKbResources.data)
                 /\ ~hasShownErrorToast
    IN /\ pollKb = currentKB
       /\ seen # PollerDeps
       /\ hasShownErrorToast' = (hasShownErrorToast \/ emits)
       /\ toasts' = IF emits THEN Notify(pollKb, RootScope) ELSE toasts
       /\ seen' = [PollerDeps EXCEPT !.toast = hasShownErrorToast']
       /\ shouldPoll' = IF StopReason # "none" THEN FALSE ELSE shouldPoll
       /\ stopped' = IF StopReason # "none" THEN StopReason ELSE stopped
       /\ UNCHANGED <<storeVars, resolverVars, syncState, queue, processing, driveCache,
                      currentKB, view, drains, creation, bgFetches, treeVars, nextTemp,
                      nextReal, pollKb, pollExpired, folderPollingActive, tick, chains,
                      seenFP, calls, enqueued, answers, rolledBack, tpVars, pfVars, psVars, dcVars, ttVars, kcVars>>

\* MAX_POLL_DURATION has passed since the hook was mounted
PollDurationElapsed ==
    /\ ~pollExpired
    /\ pollExpired' = TRUE
    /\ UNCHANGED <<storeVars, resolverVars, syncState, queue, processing, driveCache,
                   currentKB, view, drains, creation, bgFetches, treeVars, nextTemp, nextReal,
                   pollKb, shouldPoll, folderPollingActive, seen, stopped, tick, calls,
                   enqueued, answers, rolledBack, noteVars, tpVars, pfVars, psVars, dcVars, ttVars, kcVars>>

\* MAX_POLL_DURATION has passed since the [kbId] effect enabled polling of the polled
\* KB, which was at the mount of the hook or later
KbPollDurationElapsed ==
    /\ pollKb # NoKB
    /\ pollExpired
    /\ ~kbPollExpired
    /\ kbPollExpired' = TRUE
    /\ UNCHANGED <<storeVars, resolverVars, syncState, queue, processing, driveCache,
                   currentKB, view, drains, creation, bgFetches, treeVars, pollVars, nextTemp,
                   nextReal, calls, enqueued, answers, rolledBack, noteVars, tpVars, pfVars,
                   psVars, dcVars, ttVars>>

\* useFolderPolling's effect on indexedFolders marks the folders of the creation as
\* being polled
FolderPollingStarted ==
    /\ pollKb = currentKB
    /\ shouldEnablePolling(pollKb, shouldPoll)
    /\ Len(creation.folderFiles) > 0
    /\ ~folderPollingActive
    /\ folderPollingActive' = TRUE
    /\ UNCHANGED <<storeVars, resolverVars, syncState, queue, processing, driveCache,
                   currentKB, view, drains, creation, bgFetches, treeVars, nextTemp, nextReal,
                   pollKb, shouldPoll, pollExpired, seen, stopped, tick, calls, enqueued,
                   answers, rolledBack, noteVars, tpVars, pfVars, psVars, dcVars, ttVars, kcVars>>

\* the last folder poll marked its folder as done
FolderPollingDone ==
    /\ folderPollingActive
    /\ folderPollingActive' = FALSE
    /\ UNCHANGED <<storeVars, resolverVars, syncState, queue, processing, driveCache,
                   currentKB, view, drains, creation, bgFetches, treeVars, nextTemp, nextReal,
                   pollKb, shouldPoll, pollExpired, seen, stopped, tick, calls, enqueued,
                   answers, rolledBack, noteVars, tpVars, pfVars, psVars, dcVars, ttVars, kcVars>>

\* The start effect of useFolderPolling runs in a render in which indexedFolders,
\* shouldEnablePolling or pollFolderStatus changed while kbId stayed: every indexed
\* folder is marked as being polled and a chain is started for it
FolderPollEffect ==
    LET deps == FolderPollDeps(shouldPoll, hasShownErrorToast)
        starts == deps.enabled /\ Len(indexedFolders) > 0
    IN /\ pollKb = currentKB
       /\ seenFP # deps
       /\ seenFP' = deps
       /\ chains' = IF starts THEN chains \cup StartedChains(pollKb, hasShownErrorToast)
                     ELSE chains
       /\ folderPollingActive' =
              IF starts THEN StartedChains(pollKb, hasShownErrorToast) # {}
              ELSE folderPollingActive
       /\ UNCHANGED <<storeVars, resolverVars, syncState, queue, processing, driveCache,
                      currentKB, view, drains, creation, bgFetches, treeVars, nextTemp,
                      nextReal, pollKb, shouldPoll, pollExpired, seen, stopped, tick,
                      hasShownErrorToast, toasts, calls, enqueued, answers, rolledBack, tpVars, pfVars, psVars, dcVars, ttVars, kcVars>>

\* what the backend may list for the folder of a chain
ChainListings ==
    { <<>>,
      <<Rec("f2", "pending")>>,
      <<Rec("f2", "indexed")>>,
      <<Rec("f2", "error")>>,
      <<Rec("f2", "indexed"), Rec("f4", "pending")>>,
      <<Rec("f2", "pending"), Rec("f4", "failed")>> }

\* some expected file has one of the statuses in the listing
ExpectedWith(c, listing, statuses) ==
    \E i \in 1..Len(c.ids) :
       \E j \in 1..Len(listing) : listing[j].id = c.ids[i] /\ listing[j].status \in statuses

\* pollFolderStatus of a chain gets the listing of its folder: the listing is written to
\* the folder-status cache, failed files are notified unless the callback saw
\* hasShownErrorToast set, and the chain goes on while an expected file is pending
FolderPollFetched(c, listing) ==
    LET hasPending == ExpectedWith(c, listing, {"pending"})
        hasErrors == ExpectedWith(c, listing, {"error", "failed"})
        emits == hasErrors /\ ~c.shown
    IN /\ c \in chains
       /\ folderCache' = SetFolder(folderCache, c.kb, c.path, listing)
       /\ hasShownErrorToast' = (hasShownErrorToast \/ emits)
       /\ toasts' = IF emits THEN Notify(c.kb, c.path) ELSE toasts
       /\ chains' = IF hasPending THEN chains ELSE chains \ {c}
       /\ folderPollingActive' = IF hasPending THEN folderPollingActive ELSE FALSE
       /\ UNCHANGED <<delReg, delUnseen, ctrUnseen, rafPending, rootCache, folderReg,
                      resolverVars, syncState, queue, processing, driveCache, currentKB,
                      view, drains, creation, bgFetches, treeVars, nextTemp, nextReal,
                      pollKb, shouldPoll, pollExpired, seen, stopped, tick, seenFP, calls,
                      enqueued, answers, rolledBack, tpVars, pfVars, psVars, dcVars, ttVars, kcVars>>

\* listKBResourcesSafe of a chain rejects: the folder is marked as done
FolderPollFailed(c) ==
    /\ c \in chains
    /\ chains' = chains \ {c}
    /\ folderPollingActive' = FALSE
    /\ UNCHANGED <<storeVars, resolverVars, syncState, queue, processing, driveCache,
                   currentKB, view, drains, creation, bgFetches, treeVars, nextTemp, nextReal,
                   pollKb, shouldPoll, pollExpired, seen, stopped, tick, hasShownErrorToast,
                   seenFP, toasts, calls, enqueued, answers, rolledBack, tpVars, pfVars, psVars, dcVars, ttVars, kcVars>>

(* Specification of the root poller during and after the creation; the background
   fetches of a creation stay in flight *)

NextPoller ==
    \/ \E sel \in SelChoices : OnMutate(sel)
    \/ CreateResolved
    \/ OnSuccess
    \/ OnError
    \/ FetchFolderContents("d1")
    \/ RenderOps
    \/ MarkFileAsDeleted("f1")
    \/ PollerKbChanged
    \/ \E data \in PollListings : RootRefetch(data)
    \/ RootRefetchFailed
    \/ ContinueOrStopEffect
    \/ PollDurationElapsed
    \/ FolderPollingStarted
    \/ FolderPollingDone

SpecPoller == Init /\ [][NextPoller]_vars

(* Specification of the timeout of the root poller: creations of a file at any time
   after the mount, the refetches of the listing and the two durations *)

\* what the backend lists for the knowledge base of one file
TimedListings == { <<Rec("f1", "pending")>>, <<Rec("f1", "indexed")>> }

NextPollTimeout ==
    \/ OnMutate(<<"f1">>)
    \/ CreateResolved
    \/ OnSuccess
    \/ OnError
    \/ RenderOps
    \/ PollerKbChanged
    \/ \E data \in TimedListings : RootRefetch(data)
    \/ ContinueOrStopEffect
    \/ PollDurationElapsed
    \/ KbPollDurationElapsed

SpecPollTimeout == Init /\ [][NextPollTimeout]_vars

(* Specification of the root poller and the folder chains of a creation of a file and
   a folder *)

NextNotify ==
    \/ FetchFolderContents("d1")
    \/ OnMutate(<<"f1", "d1">>)
    \/ CreateResolved
    \/ OnSuccess
    \/ OnError
    \/ RenderOps
    \/ PollerKbChanged
    \/ \E data \in {<<Rec("f1", "pending")>>, <<Rec("f1", "indexed")>>, <<Rec("f1", "error")>>} :
          RootRefetch(data)
    \/ ContinueOrStopEffect
    \/ FolderPollEffect
    \/ \E c \in chains : \E listing \in ChainListings : FolderPollFetched(c, listing)
    \/ \E c \in chains : FolderPollFailed(c)

SpecNotify == Init /\ [][NextNotify]_vars

----------------------------------------------------------------------------
(* Per-folder pollers of the file tree (useFileTree/statusPolling.ts) *)

MAX_CONCURRENT_POLLS == 2

\* bounds of the model: reschedule timers that wait, and polls waiting or in flight
MaxTreeTimers == 1
MaxTreePolls == 3

\* the folderPath the callers pass with a folder id: getFolderPath of its listing
PathOf(folderId) == getFolderPath(ChildrenOf(folderId))

\* what the backend may list for the folder of a poll of the file tree
TreeListings(folderId) ==
    LET f == Head(SelectedFiles(ChildrenOf(folderId)))
    IN IF folderId = "d1"
       THEN {<<Rec(f, "pending")>>, <<Rec(f, "indexed")>>, <<Rec(f, "error")>>}
       ELSE {<<Rec(f, "pending")>>}

\* kbStatusMap.get(id), currentCache.data.find(f => f.id === id)?.status
StatusIn(data, id) == IF FindIndex(data, id) = 0 THEN Null ELSE data[FindIndex(data, id)].status

PollState == [active |-> activePolls, queue |-> pollQueue, polls |-> treePolls]

RECURSIVE processNextPoll(_, _)
\* processNextPoll: with a free slot the head of the queue is started.  The callback is
\* made once (no dependencies) and calls the pollFolderStatusInternal of the first
\* render, whose kbId is the one of that render: without it the poll returns at once
\* and its finally handler takes the next
processNextPoll(st, cache) ==
    IF Cardinality(st.active) >= MAX_CONCURRENT_POLLS \/ st.queue = <<>> THEN st
    ELSE LET nextPoll == Head(st.queue)
             slot == IF \E e \in cache : e.k = mountKb /\ e.p = PathOf(nextPoll)
                     THEN Slot((CHOOSE e \in cache :
                                   e.k = mountKb /\ e.p = PathOf(nextPoll)).data)
                     ELSE Absent
         IN IF mountKb = NoKB
            THEN processNextPoll([st EXCEPT !.queue = Tail(st.queue),
                                            !.active = st.active \ {nextPoll}], cache)
            ELSE [active |-> st.active \cup {nextPoll},
                  queue |-> Tail(st.queue),
                  polls |-> Append(st.polls, [folder |-> nextPoll, cache |-> slot])]

\* pollFolderStatus(folderPath, folderId), called a second after toggleFolder wrote the
\* optimistic statuses of a folder, when toggleFolder found a pending file, and by the
\* delayed polling effect: a folder that is neither polled nor queued is queued
PollRequested(folderId) ==
    LET st == processNextPoll([PollState EXCEPT !.queue = Append(pollQueue, folderId)],
                              folderCache)
    IN /\ currentKB # NoKB
       /\ folderId \in driveCache
       /\ folderId \notin activePolls
       /\ \A i \in 1..Len(pollQueue) : pollQueue[i] # folderId
       /\ Len(treePolls) + Len(pollQueue) < MaxTreePolls
       /\ activePolls' = st.active
       /\ pollQueue' = st.queue
       /\ treePolls' = st.polls
       /\ UNCHANGED <<storeVars, resolverVars, syncState, queue, processing, driveCache,
                      currentKB, view, drains, creation, bgFetches, treeVars, nextTemp,
                      nextReal, pollVars, noteVars, mountKb, treeTimers, errorToastShown,
                      driveWrites, calls, enqueued, answers, rolledBack, pfVars, psVars, dcVars, ttVars, kcVars>>

\* a mutant of updateCachedFilesWithStatus: a pending file is not reported
updateCachedFilesNoPending(folderId, listing) ==
    [hasPending |-> FALSE, hasErrors |-> FALSE, writes |-> folderId \in driveCache]

\* updateCachedFilesWithStatus(folderId, kbStatusMap): the flags it returns, and whether
\* it schedules the write of the listing for the next frame
updateCachedFilesWithStatus(folderId, listing) ==
    LET files == SelectedFiles(DriveData(folderId))
        with(statuses) == \E i \in 1..Len(files) : StatusIn(listing, files[i]) \in statuses
    IN IF folderId \notin driveCache
       THEN [hasPending |-> FALSE, hasErrors |-> FALSE, writes |-> FALSE]
       ELSE [hasPending |-> with({"pending"}), hasErrors |-> with({"failed", "error"}),
             writes |-> TRUE]

\* The fetch of a poll in flight is answered (ok) or fails; fetchKBStatusForFolder turns
\* a failure into an empty status map.  pollFolderStatusInternal compares the statuses
\* with the cache it read before the fetch, notifies failed files, schedules the next
\* poll of the folder while a file is pending; then the slot is freed and the next
\* queued poll starts.
TreePollAnswered(i, ok, answer) ==
    LET poll == treePolls[i]
        folderId == poll.folder
        listing == IF ok THEN answer ELSE <<>>
        cache == IF ok THEN SetFolder(folderCache, mountKb, PathOf(folderId), listing)
                 ELSE folderCache
        inMap(statuses) == \E j \in 1..Len(listing) : listing[j].status \in statuses
        hasChanges == \E j \in 1..Len(listing) :
                         StatusIn(poll.cache.data, listing[j].id) # listing[j].status
        updates == ~poll.cache.present \/ hasChanges
        upd == updateCachedFilesWithStatus(folderId, listing)
        hasPending == IF updates THEN upd.hasPending ELSE inMap({"pending"})
        hasErrors == IF updates THEN upd.hasErrors ELSE inMap({"failed", "error"})
        emits == hasErrors /\ inMap({"failed", "error"})
        st == processNextPoll([active |-> activePolls \ {folderId}, queue |-> pollQueue,
                               polls |-> RemoveAt(treePolls, i)], cache)
    IN /\ i \in 1..Len(treePolls)
       /\ hasPending => Len(treeTimers) < MaxTreeTimers
       /\ folderCache' = cache
       /\ driveWrites' = (driveWrites \/ (updates /\ upd.writes))
       /\ errorToastShown' = IF emits THEN errorToastShown \cup {PathOf(folderId)}
                             ELSE errorToastShown
       /\ toasts' = IF emits THEN Notify(mountKb, PathOf(folderId)) ELSE toasts
       /\ treeTimers' = IF hasPending THEN Append(treeTimers, folderId) ELSE treeTimers
       /\ activePolls' = st.active
       /\ pollQueue' = st.queue
       /\ treePolls' = st.polls
       /\ UNCHANGED <<delReg, delUnseen, ctrUnseen, rafPending, rootCache, folderReg,
                      resolverVars, syncState, queue, processing, driveCache, currentKB,
                      view, drains, creation, bgFetches, treeVars, nextTemp, nextReal,
                      pollVars, hasShownErrorToast, chains, seenFP, mountKb, calls,
                      enqueued, answers, rolledBack, pfVars, psVars, dcVars, ttVars, kcVars>>

\* the timer of a reschedule fires: unless the folder is being polled it is queued
TreeTimerFired(j) ==
    LET folderId == treeTimers[j]
        st == IF folderId \in activePolls THEN PollState
              ELSE processNextPoll([PollState EXCEPT !.queue = Append(pollQueue, folderId)],
                                   folderCache)
    IN /\ j \in 1..Len(treeTimers)
       /\ treeTimers' = RemoveAt(treeTimers, j)
       /\ activePolls' = st.active
       /\ pollQueue' = st.queue
       /\ treePolls' = st.polls
       /\ UNCHANGED <<storeVars, resolverVars, syncState, queue, processing, driveCache,
                      currentKB, view, drains, creation, bgFetches, treeVars, nextTemp,
                      nextReal, pollVars, noteVars, mountKb, errorToastShown, driveWrites,
                      calls, enqueued, answers, rolledBack, pfVars, psVars, dcVars, ttVars, kcVars>>

\* the next frame: the scheduled setQueryData(["drive-files", folderId]) calls are made
DriveWriteFrame ==
    /\ driveWrites
    /\ driveWrites' = FALSE
    /\ UNCHANGED <<storeVars, resolverVars, syncState, queue, processing, driveCache,
                   currentKB, view, drains, creation, bgFetches, treeVars, nextTemp, nextReal,
                   pollVars, noteVars, mountKb, activePolls, pollQueue, treePolls,
                   treeTimers, errorToastShown, calls, enqueued, answers,
                   rolledBack, pfVars, psVars, dcVars, ttVars, kcVars>>

\* pollFolderStatus(folderPath, folderId): a folder that is being polled or is queued is
\* left alone; any other is queued and processNextPoll is called
pollFolderStatus(st, folderId, cache) ==
    IF folderId \in st.active \/ \E i \in 1..Len(st.queue) : st.queue[i] = folderId THEN st
    ELSE processNextPoll([st EXCEPT !.queue = Append(st.queue, folderId)], cache)

\* toggleFolder of a collapsed folder while there is a knowledge base and no creation
\* is in flight: the listing is fetched
ExpandFolder(folderId) ==
    /\ folderId \notin expandedFolders
    /\ \A d \in Folders : StartsWith(NameOf(folderId), NameOf(d) \o <<"/">>)
                              => d \in expandedFolders
    /\ creation.pc = "idle"
    /\ view = OpsSnapshot
    /\ view.kb # NoKB
    /\ \A t \in toggles : t.folderId # folderId
    /\ toggles' = toggles \cup {[folderId |-> folderId, kbId |-> view.kb, reg |-> Snapshot,
                                 creating |-> FALSE, pc |-> "drive"]}
    /\ UNCHANGED <<storeVars, resolverVars, syncState, queue, processing, driveCache,
                   currentKB, view, drains, creation, bgFetches, expandedFolders,
                   delayedPollingFolders, nextTemp, pollVars, nextReal, calls, enqueued,
                   answers, rolledBack, noteVars, tpVars, pfVars, psVars, dcVars, ttVars, kcVars>>

\* fetchKBStatusForFolder(folderPath) of toggleFolder answered (ok) or failed, which
\* gives an empty status map; a cached listing that is still fresh is the answer without
\* a request.  updateCachedFilesWithStatus schedules the write of the drive listing, a
\* pending file of the listing makes toggleFolder call pollFolderStatus, and the folder
\* is expanded.
ToggleStatusFetched(t, ok, answer) ==
    LET contents == ChildrenOf(t.folderId)
        folderPath == getFolderPath(contents)
        listing == IF ok THEN answer ELSE <<>>
        cache == IF ok THEN SetFolder(folderCache, t.kbId, folderPath, listing)
                 ELSE folderCache
        upd == updateCachedFilesWithStatus(t.folderId, listing)
        files == SelectedFiles(contents)
        hasPendingFiles == \E i \in 1..Len(files) : StatusIn(listing, files[i]) = "pending"
        st == IF hasPendingFiles THEN pollFolderStatus(PollState, t.folderId, cache)
              ELSE PollState
    IN /\ t \in toggles
       /\ t.pc = "status"
       /\ hasPendingFiles => Len(treePolls) + Len(pollQueue) < MaxTreePolls
       /\ toggles' = toggles \ {t}
       /\ folderCache' = cache
       /\ driveWrites' = (driveWrites \/ upd.writes)
       /\ activePolls' = st.active
       /\ pollQueue' = st.queue
       /\ treePolls' = st.polls
       /\ expandedFolders' = expandedFolders \cup {t.folderId}
       /\ UNCHANGED <<delReg, delUnseen, ctrUnseen, rafPending, rootCache, folderReg,
                      resolverVars, syncState, queue, processing, driveCache, currentKB,
                      view, drains, creation, bgFetches, delayedPollingFolders, nextTemp,
                      nextReal, pollVars, noteVars, mountKb, treeTimers, errorToastShown,
                      calls, enqueued, answers, rolledBack, pfVars, psVars, dcVars, ttVars, kcVars>>

\* the one-second timer set by toggleFolder or by the delayed polling effect fires:
\* pollFolderStatus(folderPath, folderId)
PollTimerFired(folderId) ==
    LET st == pollFolderStatus(PollState, folderId, folderCache)
    IN /\ folderId \in pollTimers
       /\ Len(treePolls) + Len(pollQueue) < MaxTreePolls
       /\ pollTimers' = pollTimers \ {folderId}
       /\ activePolls' = st.active
       /\ pollQueue' = st.queue
       /\ treePolls' = st.polls
       /\ UNCHANGED <<storeVars, resolverVars, syncState, queue, processing, driveCache,
                      currentKB, view, drains, creation, bgFetches, treeVars, nextTemp,
                      nextReal, pollVars, noteVars, mountKb, treeTimers, errorToastShown,
                      driveWrites, calls, enqueued, answers, rolledBack, pfVars, psVars,
                      dcVars, kcVars>>

\* the folders of the deferred set for which the delayed polling effect sets a timer:
\* those with a listing in the drive cache whose path lies in an optimistic subtree
DeferredToPoll(kbId) ==
    {d \in delayedPollingFolders :
        /\ d \in driveCache
        /\ Len(ChildrenOf(d)) > 0
        /\ isDescendantOfOptimisticFolder(folderReg, kbId, PathOf(d))}

\* The effect "handle delayed polling when KB creation completes" of useFileTree runs
\* in a render without isCreatingKB, with a kbId and with a deferred set that is not
\* empty: a timer per folder that qualifies, and the set is emptied
DelayedPollingEffect ==
    /\ creation.pc = "idle"
    /\ currentKB # NoKB
    /\ delayedPollingFolders # {}
    /\ pollTimers' = pollTimers \cup DeferredToPoll(currentKB)
    /\ delayedPollingFolders' = {}
    /\ UNCHANGED <<storeVars, resolverVars, syncState, queue, processing, driveCache,
                   currentKB, view, drains, creation, bgFetches, toggles, expandedFolders,
                   nextTemp, pollVars, nextReal, calls, enqueued, answers, rolledBack,
                   noteVars, tpVars, pfVars, psVars, dcVars, kcVars>>

(* Specification of the per-folder pollers of a session opened with a stored knowledge
   base *)

NextTreePoll ==
    \/ \E d \in Folders : FetchFolderContents(d)
    \/ \E d \in Folders : PollRequested(d)
    \/ \E i \in 1..Len(treePolls) :
          \E answer \in TreeListings(treePolls[i].folder) : TreePollAnswered(i, TRUE, answer)
    \/ \E i \in 1..Len(treePolls) : TreePollAnswered(i, FALSE, <<>>)
    \/ \E j \in 1..Len(treeTimers) : TreeTimerFired(j)
    \/ DriveWriteFrame

SpecTreePoll == InitStored /\ [][NextTreePoll]_vars

(* Specification of the file tree of a session opened with a stored knowledge base:
   folders are expanded and collapsed, and the per-folder pollers run *)

\* what the backend lists for a folder in this specification: its file is pending, or,
\* in folder A, indexed
SessionListings(folderId) ==
    LET f == Head(SelectedFiles(ChildrenOf(folderId)))
    IN IF folderId = "d1" THEN {<<Rec(f, "pending")>>, <<Rec(f, "indexed")>>}
       ELSE {<<Rec(f, "pending")>>}

NextTreeSession ==
    \/ \E d \in Folders : ExpandFolder(d)
    \/ \E d \in Folders : CollapseFolder(d)
    \/ \E t \in toggles : ToggleFolderFetched(t)
    \/ \E t \in toggles :
          \E answer \in SessionListings(t.folderId) : ToggleStatusFetched(t, TRUE, answer)
    \/ \E t \in toggles : ToggleStatusFetched(t, FALSE, <<>>)
    \/ \E i \in 1..Len(treePolls) :
          \E answer \in SessionListings(treePolls[i].folder) :
             TreePollAnswered(i, TRUE, answer)
    \/ \E j \in 1..Len(treeTimers) : TreeTimerFired(j)
    \/ DriveWriteFrame

SpecTreeSession == InitStored /\ [][NextTreeSession]_vars

(* Specification of the deferred polls: folders are expanded while a creation of a
   file and a folder is in flight, and the delayed polling effect runs after it *)

NextDeferred ==
    \/ OnMutate(<<"f1", "d1">>)
    \/ CreateResolved
    \/ OnSuccess
    \/ OnError
    \/ \E b \in bgFetches : BgFetchResolved(b)
    \/ RenderOps
    \/ \E d \in {"d1", "d2"} : ToggleFolder(d)
    \/ \E d \in {"d1", "d2"} : CollapseFolder(d)
    \/ \E t \in toggles : ToggleFolderFetched(t)
    \/ DelayedPollingEffect
    \/ \E d \in Folders : PollTimerFired(d)

SpecDeferred == Init /\ [][NextDeferred]_vars

(* Specification of a creation of a file and a folder whose chain reports the backend
   statuses, with the folder collapsed and expanded again before, during and after the
   creation *)

\* what the backend lists for the folder of the chain
ReexpandListings ==
    { <<Rec("f2", "pending")>>, <<Rec("f2", "indexed")>>, <<Rec("f2", "error")>> }

NextReexpand ==
    \/ OnMutate(<<"f1", "d1">>)
    \/ CreateResolved
    \/ OnSuccess
    \/ OnError
    \/ \E b \in bgFetches : BgFetchResolved(b)
    \/ RenderOps
    \/ PollerKbChanged
    \/ FolderPollEffect
    \/ \E c \in chains : \E listing \in ReexpandListings : FolderPollFetched(c, listing)
    \/ ToggleFolder("d1")
    \/ ExpandFolder("d1")
    \/ CollapseFolder("d1")
    \/ \E t \in toggles : ToggleFolderFetched(t)
    \/ PollTimerFired("d1")

SpecReexpand == Init /\ [][NextReexpand]_vars

(* Specification of the two per-folder pollers: the chains of useFolderPolling, started
   by a creation in a session opened without a knowledge base, and the poller of the
   file tree for one folder, which fetches in a session opened with a stored knowledge
   base *)

NextFolderPolls ==
    \/ NextNotify
    \/ PollRequested("d1")
    \/ \E i \in 1..Len(treePolls) :
          \E answer \in TreeListings("d1") : TreePollAnswered(i, TRUE, answer)
    \/ \E i \in 1..Len(treePolls) : TreePollAnswered(i, FALSE, <<>>)
    \/ \E j \in 1..Len(treeTimers) : TreeTimerFired(j)
    \/ DriveWriteFrame

SpecFolderPolls == (Init \/ InitStored) /\ [][NextFolderPolls]_vars

(* The root poller of a creation of one file under the scheduling the runtime gives:
   a promise that can settle settles, a scheduled effect runs, the refetch timer of an
   enabled query fires, and time passes.  An effect whose dependencies changed runs
   with the commit of that render, before the next timer: it is not passed over for
   ever by refetches that happen to restore the dependencies.  What the user does and
   how the backend answers stay free. *)

NextPollerFair ==
    \/ OnMutate(<<"f1">>)
    \/ CreateResolved
    \/ OnSuccess
    \/ OnError
    \/ RenderOps
    \/ PollerKbChanged
    \/ RootRefetch(<<Rec("f1", "pending")>>)
    \/ RootRefetch(<<Rec("f1", "indexed")>>)
    \/ RootRefetchFailed
    \/ ContinueOrStopEffect
    \/ PollDurationElapsed

SpecPollerFair ==
    /\ Init
    /\ [][NextPollerFair]_vars
    /\ WF_vars(CreateResolved \/ OnSuccess \/ OnError \/ RenderOps \/ PollerKbChanged)
    /\ WF_vars(RootRefetch(<<Rec("f1", "pending")>>) \/ RootRefetchFailed)
    /\ SF_vars(ContinueOrStopEffect)
    /\ WF_vars(PollDurationElapsed)

----------------------------------------------------------------------------
(* The delete queue under the scheduling the runtime gives: a render that is due
   happens and runs the queue effect, every deleteKBResource call returns (with
   either outcome), the one-second timer fires, and the backend answers the creation
   (with either outcome).  What the user does stays free. *)

NextDrainFair ==
    \/ \E sel \in SelChoices : OnMutate(sel)
    \/ CreateResolved
    \/ OnSuccess
    \/ OnError
    \/ RenderOps
    \/ RenderStartsDrain
    \/ \E ids \in DeleteChoices : DeleteWhilePending(ids)
    \/ \E i \in 1..Len(drains) : DeleteSucceeded(i)
    \/ \E i \in 1..Len(drains) : DeleteFailed(i)
    \/ \E i \in 1..Len(drains) : DelayElapsed(i)

SpecDrainFair ==
    /\ Init
    /\ [][NextDrainFair]_vars
    /\ WF_vars(CreateResolved \/ OnSuccess \/ OnError)
    /\ WF_vars(RenderOps \/ RenderStartsDrain)
    /\ WF_vars(\E i \in 1..Len(drains) : DeleteSucceeded(i) \/ DeleteFailed(i))
    /\ WF_vars(\E i \in 1..Len(drains) : DelayElapsed(i))

----------------------------------------------------------------------------
(* Prefetch of folder listings on hover (usePrefetch) *)

MAX_CONCURRENT_PREFETCHES == 3

\* the fields of usePrefetch that processQueue reads and writes
PrefetchState == [queue |-> requestQueue, count |-> activeRequestCount,
                  fetches |-> prefetches, status |-> statusPrefetches]

\* prefetchFolderContents after the Drive listing is known: with a knowledge base, a
\* non-empty listing and no cached statuses of the folder's path, an idle callback is
\* requested that prefetches the statuses.  The call is the one of the first render
\* (processQueue is memoised without dependencies), so kbId is the id known at mount.
\* Its abortSignal belongs to the controller processQueue creates for the call; nothing
\* else holds that controller, so abortSignal.aborted is false wherever it is read.
StatusPrefetchScheduled(status, folderId, cache) ==
    IF /\ mountKb # NoKB
       /\ folderId \in cache
       /\ Len(ChildrenOf(folderId)) > 0
       /\ ~GetFolderCache(mountKb, PathOf(folderId)).present
    THEN status \cup {folderId}
    ELSE status

\* processQueue: takes the head of the queue while a slot is free.  A folder whose
\* listing is cached settles without a request (the slot is taken and released at
\* once, and the queue is processed again); otherwise the request starts.  The field
\* left of a running call records that the folder left the viewport or the pointer
\* since the call started.
RECURSIVE processQueuePrefetch(_, _)
processQueuePrefetch(st, cache) ==
    IF st.count >= MAX_CONCURRENT_PREFETCHES \/ st.queue = <<>>
    THEN st
    ELSE LET folderId == Head(st.queue)
             rest == [st EXCEPT !.queue = Tail(st.queue)]
         IN IF folderId \in visibleFolders
            THEN IF folderId \in cache
                 THEN processQueuePrefetch(
                          [rest EXCEPT !.status = StatusPrefetchScheduled(@, folderId, cache)],
                          cache)
                 ELSE [rest EXCEPT !.count = @ + 1,
                                   !.fetches = Append(@, [folderId |-> folderId,
                                                          left |-> FALSE])]
            ELSE processQueuePrefetch(rest, cache)

\* prefetches with the calls for folderId marked as left
MarkLeft(folderId) ==
    [i \in 1..Len(prefetches) |->
        IF prefetches[i].folderId = folderId THEN [prefetches[i] EXCEPT !.left = TRUE]
        ELSE prefetches[i]]

\* cancelPrefetch: clears the timer, aborts and forgets the stored request, and removes
\* the folder from the queue
cancelPrefetch(folderId, leaves) ==
    /\ activePrefetches' = activePrefetches \ {folderId}
    /\ prefetchTimers' = prefetchTimers \ {folderId}
    /\ requestQueue' = SelectSeq(requestQueue, LAMBDA id : id # folderId)
    /\ prefetches' = IF leaves THEN MarkLeft(folderId) ELSE prefetches

\* the intersection observer reports the folder's row in view
FolderVisible(folderId) ==
    /\ prefetchMounted
    /\ folderId \notin visibleFolders
    /\ visibleFolders' = visibleFolders \cup {folderId}
    /\ UNCHANGED <<storeVars, resolverVars, syncState, queue, processing, driveCache,
                   currentKB, view, drains, creation, bgFetches, treeVars, nextTemp,
                   nextReal, pollVars, noteVars, tpVars, activePrefetches, prefetchTimers,
                   requestQueue, activeRequestCount, prefetches, statusPrefetches,
                   prefetchMounted, calls, enqueued, answers, rolledBack, psVars, dcVars, ttVars, kcVars>>

\* the intersection observer reports the folder's row out of view, or the row is
\* unmounted (cleanup of registerFolder)
FolderHidden(folderId) ==
    /\ prefetchMounted
    /\ folderId \in visibleFolders
    /\ visibleFolders' = visibleFolders \ {folderId}
    /\ cancelPrefetch(folderId, TRUE)
    /\ UNCHANGED <<storeVars, resolverVars, syncState, queue, processing, driveCache,
                   currentKB, view, drains, creation, bgFetches, treeVars, nextTemp,
                   nextReal, pollVars, noteVars, tpVars, activeRequestCount,
                   statusPrefetches, prefetchMounted, calls, enqueued, answers,
                   rolledBack, psVars, dcVars, ttVars, kcVars>>

\* startPrefetch (pointer enters the row): for a visible folder the stored request is
\* cancelled and a new one with a fresh debounce timer is stored
startPrefetch(folderId) ==
    /\ prefetchMounted
    /\ folderId \in visibleFolders
    /\ activePrefetches' = activePrefetches \cup {folderId}
    /\ prefetchTimers' = prefetchTimers \cup {folderId}
    /\ requestQueue' = SelectSeq(requestQueue, LAMBDA id : id # folderId)
    /\ UNCHANGED <<storeVars, resolverVars, syncState, queue, processing, driveCache,
                   currentKB, view, drains, creation, bgFetches, treeVars, nextTemp,
                   nextReal, pollVars, noteVars, tpVars, visibleFolders,
                   activeRequestCount, prefetches, statusPrefetches, prefetchMounted,
                   calls, enqueued, answers, rolledBack, psVars, dcVars, ttVars, kcVars>>

\* stopPrefetch (pointer leaves the row)
stopPrefetch(folderId) ==
    /\ prefetchMounted
    /\ cancelPrefetch(folderId, TRUE)
    /\ UNCHANGED <<storeVars, resolverVars, syncState, queue, processing, driveCache,
                   currentKB, view, drains, creation, bgFetches, treeVars, nextTemp,
                   nextReal, pollVars, noteVars, tpVars, visibleFolders,
                   activeRequestCount, statusPrefetches, prefetchMounted, calls,
                   enqueued, answers, rolledBack, psVars, dcVars, ttVars, kcVars>>

\* the debounce timer fires: a folder still visible and not queued is queued and the
\* queue is processed
PrefetchTimerFired(folderId) ==
    LET queues == folderId \in visibleFolders /\ (\A k \in 1..Len(requestQueue) : requestQueue[k] # folderId)
        st == IF queues
              THEN processQueuePrefetch(
                       [PrefetchState EXCEPT !.queue = Append(requestQueue, folderId)],
                       driveCache)
              ELSE PrefetchState
    IN /\ folderId \in prefetchTimers
       /\ prefetchTimers' = prefetchTimers \ {folderId}
       /\ requestQueue' = st.queue
       /\ activeRequestCount' = st.count
       /\ prefetches' = st.fetches
       /\ statusPrefetches' = st.status
       /\ UNCHANGED <<storeVars, resolverVars, syncState, queue, processing, driveCache,
                      currentKB, view, drains, creation, bgFetches, treeVars, nextTemp,
                      nextReal, pollVars, noteVars, tpVars, visibleFolders,
                      activePrefetches, prefetchMounted, calls, enqueued, answers,
                      rolledBack, psVars, dcVars, ttVars, kcVars>>

\* the Drive request of a running prefetchFolderContents answers.  prefetchQuery
\* stores a listing that arrived and swallows a failure; the call goes on to the status
\* prefetch, and its finally block releases the slot and processes the queue.
PrefetchFetched(i, ok) ==
    LET folderId == prefetches[i].folderId
        cache == IF ok THEN driveCache \cup {folderId} ELSE driveCache
        st == processQueuePrefetch(
                  [PrefetchState EXCEPT
                      !.count = @ - 1,
                      !.fetches = RemoveAt(prefetches, i),
                      !.status = StatusPrefetchScheduled(@, folderId, cache)],
                  cache)
    IN /\ i \in 1..Len(prefetches)
       /\ driveCache' = cache
       /\ requestQueue' = st.queue
       /\ activeRequestCount' = st.count
       /\ prefetches' = st.fetches
       /\ statusPrefetches' = st.status
       /\ UNCHANGED <<storeVars, resolverVars, syncState, queue, processing, currentKB,
                      view, drains, creation, bgFetches, treeVars, nextTemp, nextReal,
                      pollVars, noteVars, tpVars, visibleFolders, activePrefetches,
                      prefetchTimers, prefetchMounted, calls, enqueued, answers,
                      rolledBack, psVars, dcVars, ttVars, kcVars>>

\* the idle callback of a status prefetch runs and its request answers: prefetchQuery
\* stores the listing at ["kb-file-status", kbId, folderPath] unless statuses are cached
StatusPrefetchFetched(folderId, ok, answer) ==
    /\ folderId \in statusPrefetches
    /\ statusPrefetches' = statusPrefetches \ {folderId}
    /\ folderCache' = IF ok /\ ~GetFolderCache(mountKb, PathOf(folderId)).present
                      THEN SetFolder(folderCache, mountKb, PathOf(folderId), answer)
                      ELSE folderCache
    /\ UNCHANGED <<delReg, delUnseen, ctrUnseen, rafPending, rootCache, folderReg,
                   resolverVars, syncState, queue, processing, driveCache, currentKB,
                   view, drains, creation, bgFetches, treeVars, nextTemp, nextReal,
                   pollVars, noteVars, tpVars, visibleFolders, activePrefetches,
                   prefetchTimers, requestQueue, activeRequestCount, prefetches,
                   prefetchMounted, calls, enqueued, answers, rolledBack, psVars, dcVars, ttVars, kcVars>>

\* cleanup of the observer effect (the file tree unmounts): timers cleared, stored
\* controllers aborted, the map and the queue emptied, the counter set to 0.  The
\* running calls hold their own controllers and go on.
PrefetchCleanup ==
    /\ prefetchMounted
    /\ prefetchMounted' = FALSE
    /\ activePrefetches' = {}
    /\ prefetchTimers' = {}
    /\ requestQueue' = <<>>
    /\ activeRequestCount' = 0
    /\ UNCHANGED <<storeVars, resolverVars, syncState, queue, processing, driveCache,
                   currentKB, view, drains, creation, bgFetches, treeVars, nextTemp,
                   nextReal, pollVars, noteVars, tpVars, visibleFolders, prefetches,
                   statusPrefetches, calls, enqueued, answers, rolledBack, psVars, dcVars, ttVars, kcVars>>

\* the folder rows the pointer and the viewport are moved over
PrefetchFolders == {"d1", "d2"}

(* Specification of the prefetch in a session opened with a stored knowledge base *)
NextPrefetch ==
    \/ \E folderId \in PrefetchFolders : FolderVisible(folderId)
    \/ \E folderId \in PrefetchFolders : FolderHidden(folderId)
    \/ \E folderId \in PrefetchFolders : startPrefetch(folderId)
    \/ \E folderId \in PrefetchFolders : stopPrefetch(folderId)
    \/ \E folderId \in PrefetchFolders : PrefetchTimerFired(folderId)
    \/ \E i \in 1..Len(prefetches), ok \in BOOLEAN : PrefetchFetched(i, ok)
    \/ \E folderId \in PrefetchFolders, ok \in BOOLEAN :
          \E answer \in TreeListings(folderId) : StatusPrefetchFetched(folderId, ok, answer)
    \/ PrefetchCleanup

SpecPrefetch == InitStored /\ [][NextPrefetch]_vars

----------------------------------------------------------------------------
(* Page reload: the store is rebuilt from the snapshot (useCachePersistence) *)

\* getKBFromStorage: onSuccess saves the knowledge base it created; a session opened
\* with a knowledge base keeps it
getKBFromStorage == IF currentKB \in RealIds THEN currentKB ELSE mountKb

\* The page is loaded again: a new query client and new hook instances, and the mount
\* effect of useCachePersistence writes the stored snapshot into the store: the root
\* slot and the folder-status slots of the snapshot's kbId and both registries.  The
\* state is the one after the first renders and their mount effects.  Requests in
\* flight end with the page; the backend and localStorage stay as they are.
Reload ==
    LET kb == getKBFromStorage
        snap == getCacheFromStorage
    IN /\ snap.present
       /\ delReg' = snap.optimisticRegistry
       /\ delUnseen' = FALSE
       /\ ctrUnseen' = FALSE
       /\ rafPending' = FALSE
       /\ rootCache' = IF snap.rootResources.present
                    THEN {[k |-> snap.kbId, data |-> snap.rootResources.data]}
                    ELSE {}
       /\ folderCache' = snap.folderStatuses
       /\ folderReg' = snap.optimisticFolderRegistry
       /\ syncState' = [state |-> "idle", kbId |-> NoKB]
       /\ queue' = <<>>
       /\ processing' = FALSE
       /\ driveCache' = {}
       /\ rend' = [delEntries |-> snap.optimisticRegistry,
              folderEntries |-> snap.optimisticFolderRegistry]
       /\ effPending' = FALSE
       /\ memo' = {}
       /\ currentKB' = kb
       /\ view' = [sync |-> "idle", queue |-> <<>>, processing |-> FALSE, kb |-> kb]
       /\ drains' = <<>>
       /\ creation' = IdleCreation
       /\ bgFetches' = {}
       /\ toggles' = {}
       /\ expandedFolders' = {}
       /\ delayedPollingFolders' = {}
       /\ pollKb' = kb
       /\ shouldPoll' = TRUE
       /\ pollExpired' = FALSE
       /\ folderPollingActive' = FALSE
       /\ seen' = [data |-> Absent, kb |-> kb, active |-> FALSE, toast |-> FALSE]
       /\ stopped' = "none"
       /\ tick' = FALSE
       /\ hasShownErrorToast' = FALSE
       /\ chains' = {}
       /\ seenFP' = [folders |-> <<>>, enabled |-> kb # NoKB, kb |-> kb, toast |-> FALSE]
       /\ toasts' = {}
       /\ mountKb' = kb
       /\ activePolls' = {}
       /\ pollQueue' = <<>>
       /\ treePolls' = <<>>
       /\ treeTimers' = <<>>
       /\ errorToastShown' = {}
       /\ driveWrites' = FALSE
       /\ visibleFolders' = {}
       /\ activePrefetches' = {}
       /\ prefetchTimers' = {}
       /\ requestQueue' = <<>>
       /\ activeRequestCount' = 0
       /\ prefetches' = <<>>
       /\ statusPrefetches' = {}
       /\ prefetchMounted' = TRUE
       /\ pollTimers' = {}
       /\ kbPollExpired' = FALSE
       /\ UNCHANGED <<nextTemp, nextReal, storage, calls, enqueued, answers, rolledBack, dcVars>>

(* Specification of the persistence: a creation of a file and a folder whose listing
   is fetched in the background, and reloads of the page *)
NextPersist ==
    \/ OnMutate(<<"f1", "d1">>)
    \/ CreateResolved
    \/ OnSuccess
    \/ OnError
    \/ RenderOps
    \/ \E b \in bgFetches : BgFetchResolved(b)
    \/ Reload

SpecPersist == Init /\ [][NextPersist]_vars

----------------------------------------------------------------------------
(* Claims about the status resolver *)

AllFileIds == Files \cup {""}
AllKbArgs == {RealId(1), TempId(1), NoKB}

\* The hook has rendered since the registries were last written
HookFresh == rend.delEntries = delReg /\ rend.folderEntries = folderReg

\* C1: in every reachable state a file id that is in the optimistic delete registry
\* resolves to Deleted ("-"), for every kbId and every folderPath.
C1_DeletedResolvesToDash ==
    \A f \in delReg, k \in AllKbArgs, p \in LookupPaths : resolveFileStatus(f, k, p) = Dash

\* The precedence rules as the specification states them, read from the store
RefRecordStatus(data, f) ==
    LET hits == {i \in 1..Len(data) : data[i].id = f}
        first == CHOOSE i \in hits : \A j \in hits : i <= j
    IN IF data[first].status = "pending" THEN "indexed" ELSE data[first].status

RefHasRecord(slot, f) == slot.present /\ \E i \in 1..Len(slot.data) : slot.data[i].id = f

\* path equals the registered path or continues it at a "/" boundary
RefDescendant(k, p) ==
    LET t == Normalize(p)
    IN p # NoPath /\ \E i \in 1..Len(folderReg) :
          LET r == folderReg[i].folderPath
          IN /\ folderReg[i].kbId = k
             /\ Len(r) <= Len(t)
             /\ \A j \in 1..Len(r) : t[j] = r[j]
             /\ (Len(t) > Len(r) => t[Len(r) + 1] = "/")

RefStatus(f, k, p) ==
    IF k # NoKB /\ RefHasRecord(GetRootCache(k), f)
    THEN RefRecordStatus(GetRootCache(k).data, f)
    ELSE IF k # NoKB /\ RefHasRecord(GetFolderCache(k, p), f)
    THEN RefRecordStatus(GetFolderCache(k, p).data, f)
    ELSE IF k # NoKB /\ RefDescendant(k, p) THEN "indexed"
    ELSE Null

\* C2: for a file id that is not in the delete registry, the value resolveFileStatus
\* computes (no memoised entry for the key, registries as last rendered) is the
\* reference precedence: root cache record, else folder-status cache record, else
\* Indexed below an optimistic folder of the kbId, else Absent; a stored pending is
\* shown as Indexed and no call ever returns pending.
C2_ResolverFollowsPrecedence ==
    \A f \in AllFileIds, k \in AllKbArgs, p \in LookupPaths :
       LET v == resolveFileStatus(f, k, p)
       IN /\ v # "pending"
          /\ (HookFresh /\ f \notin delReg /\ ~MemoHas(Key(f, k, p))) => v = RefStatus(f, k, p)

\* C2 witness: a call has returned Indexed for f1 from a root record that is pending
\* while the folder-status cache of /A holds f1 as error, the probe below /A has
\* resolved through the registry, and an unmemoised key is about to be computed.
C2_Witness ==
    /\ HookFresh
    /\ "f1" \notin delReg
    /\ RefHasRecord(GetRootCache(RealId(1)), "f1")
    /\ GetRootCache(RealId(1)).data = <<Rec("f1", "pending")>>
    /\ RefHasRecord(GetFolderCache(RealId(1), PathA), "f1")
    /\ RefRecordStatus(GetFolderCache(RealId(1), PathA).data, "f1") = "error"
    /\ [key |-> Key("f1", RealId(1), NoPath), val |-> "indexed"] \in memo
    /\ [key |-> Key("", RealId(1), PathAB), val |-> "indexed"] \in memo
    /\ ~MemoHas(Key("f1", RealId(1), PathA))
    /\ resolveFileStatus("f1", RealId(1), PathA) = "indexed"

----------------------------------------------------------------------------
(* Claims about the delete queue and the knowledge-base creation *)

CallIds == [j \in 1..Len(calls) |-> calls[j].id]
QueueIds == [j \in 1..Len(queue) |-> queue[j].id]
AnsweredIds == {a.id : a \in answers}
InFlight == {i \in 1..Len(drains) : drains[i].pc = "call"}

\* C3: the requests are sent in the order they were enqueued, whatever the outcome
\* of each call: the calls issued so far are the first requests enqueued, in that
\* order, and the queue holds the last requests enqueued, in that order (a new
\* request is put at the tail).
C3_FifoOrder ==
    /\ Len(calls) <= Len(enqueued)
    /\ CallIds = SubSeq(enqueued, 1, Len(calls))
    /\ Len(queue) <= Len(enqueued)
    /\ QueueIds = SubSeq(enqueued, Len(enqueued) - Len(queue) + 1, Len(enqueued))

\* C3 witness: three requests enqueued by two deleteSelectedFiles calls were all
\* sent, in the order of their enqueueing, the call for the second having failed
C3_Witness ==
    /\ enqueued = <<Request("f1", NoKB).id, Request("f3", NoKB).id, Request("f2", NoKB).id>>
    /\ CallIds = enqueued
    /\ \E a \in answers : ~a.ok /\ a.id = Request("f3", NoKB).id

\* C4: a request that got its response (success or failure) is no longer in the
\* queue, from the moment of the response on and so when the drain completes; a
\* request that got no response is still in the queue.
C4_AnsweredLeaveQueue ==
    \A j \in 1..Len(enqueued) :
       (enqueued[j] \in AnsweredIds) <=> (\A h \in 1..Len(queue) : queue[h].id # enqueued[j])

\* C4 witness: a drain is between two requests: one succeeded, one failed, the
\* third has no response yet and is the only one left in the queue
C4_Witness ==
    /\ Len(drains) = 1
    /\ Len(drains[1].items) = 3
    /\ \E a \in answers : a.ok
    /\ \E a \in answers : ~a.ok
    /\ Len(queue) = 1
    /\ queue[1].id \notin AnsweredIds

\* C5: every deleteKBResource call a drain makes carries a real knowledge-base id,
\* never a temporary one.
C5_DrainCallsCarryRealId == \A j \in 1..Len(calls) : ~IsTemp(calls[j].kbId)

\* C6: a drain starts only in a state where the sync state is Synced, the queue is
\* not empty and the processing flag is false; no call for a queued request is issued
\* while the sync state is Pending.
C6_DrainOnlyWhenSynced ==
    [][ /\ Len(drains') > Len(drains) =>
              (syncState.state = "synced" /\ Len(queue) > 0 /\ ~processing)
        /\ Len(calls') > Len(calls) =>
              (syncState.state # "pending" /\ syncState'.state # "pending") ]_vars

\* C6 witness: requests were queued while the sync was pending, the creation
\* committed, and the drain that then started has its first call in flight
C6_Witness ==
    /\ syncState.state = "synced"
    /\ Len(drains) = 1
    /\ drains[1].pc = "call"
    /\ drains[1].idx = 1
    /\ Len(queue) = 2
    /\ processing

\* C7: no request is sent twice: over the whole run every DeleteRequest gets at most
\* one deleteKBResource call.
C7_AtMostOneCall ==
    \A i, j \in 1..Len(calls) : i # j => calls[i].id # calls[j].id

\* C7 witness: a drain whose calls partly failed has ended, and the hook has
\* rendered since (its effect ran again with the processing flag back to false)
C7_Witness ==
    /\ Len(calls) = 3
    /\ \E a \in answers : ~a.ok
    /\ drains = <<>>
    /\ ~processing
    /\ view = OpsSnapshot

\* C8: at most one drain is in progress, and at most one call for a queued request
\* is in flight.
C8_SingleDrain ==
    /\ Len(drains) <= 1
    /\ Cardinality(InFlight) <= 1

\* C8 witness: a drain waits for the response to its second request, and the hook has
\* rendered the processing flag and the shortened queue
C8_Witness ==
    /\ Len(drains) = 1
    /\ drains[1].pc = "call"
    /\ drains[1].idx = 2
    /\ processing
    /\ view = OpsSnapshot

\* C9: after the creation failed and onError ran, the sync state is Idle with no
\* knowledge-base id, and there is no current knowledge base.
C9_RollbackResetsSync ==
    (creation.pc = "idle" /\ creation.outcome = "rolledBack") =>
        /\ syncState.state = "idle"
        /\ syncState.kbId = NoKB
        /\ currentKB = NoKB

\* C10: once the rollback of a failed creation has run, no root cache slot and no
\* folder-status cache slot is keyed by its temporary id.
C10_NoTempSlotAfterRollback ==
    \A t \in rolledBack :
       /\ \A e \in rootCache : e.k # t
       /\ \A e \in folderCache : e.k # t

\* C11: once the rollback of a failed creation has run, the optimistic folder registry
\* holds no entry whose kbId is the temporary id, so no path resolves to Indexed
\* through the registry for that id.
C11_NoTempFolderEntryAfterRollback ==
    \A t \in rolledBack :
       /\ \A i \in 1..Len(folderReg) : folderReg[i].kbId # t
       /\ \A p \in LookupPaths : ~isDescendantOfOptimisticFolder(folderReg, t, p)

\* the step in which onSuccess commits the creation
CommitStep == creation.pc = "syncing" /\ creation'.pc = "idle" /\ creation'.outcome = "committed"

\* C12: when the creation commits, the root cache slot and every folder-status cache
\* slot that exists under the temporary id exists under the real id afterwards, with
\* the same records.
C12_CachesCopiedAtCommit ==
    [][ CommitStep =>
          /\ \A e \in rootCache : e.k = creation.temp =>
                [k |-> creation.real, data |-> e.data] \in rootCache'
          /\ \A e \in folderCache : e.k = creation.temp =>
                [k |-> creation.real, p |-> e.p, data |-> e.data] \in folderCache' ]_vars

\* C13: once a creation has committed, no root slot and no folder-status slot exists
\* under its temporary id, also when a background fetch that targets the temporary id
\* completes after the commit.
C13_NoTempSlotAfterCommit ==
    creation.outcome = "committed" =>
       /\ ~GetRootCache(creation.temp).present
       /\ \A e \in folderCache : e.k # creation.temp

\* C14: when the creation commits, every DeleteRequest queued against the temporary id
\* is in the queue with the real id as its kbId, at the same position and with the
\* same id, fileId and resourcePath; a request with another kbId is unchanged.
C14_QueueRetargetedAtCommit ==
    [][ CommitStep =>
          /\ Len(queue') = Len(queue)
          /\ \A i \in 1..Len(queue) :
                /\ queue'[i].id = queue[i].id
                /\ queue'[i].fileId = queue[i].fileId
                /\ queue'[i].resourcePath = queue[i].resourcePath
                /\ queue'[i].kbId = IF queue[i].kbId = creation.temp THEN creation.real
                                    ELSE queue[i].kbId ]_vars

\* a creation has just committed, the queue holds a request it moved to the real id
\* behind a request that a rolled-back creation left with its own temporary id, and no
\* drain has started since
C14_Witness ==
    /\ creation.outcome = "committed"
    /\ syncState.kbId = creation.real
    /\ ~processing
    /\ \E i, j \in 1..Len(queue) :
          /\ i < j
          /\ queue[i].kbId \in rolledBack
          /\ queue[j].kbId = creation.real

\* C15: whenever the sync state is Synced, its kbId is a real id, the one of a creation
\* whose createKnowledgeBase and syncKnowledgeBase both succeeded; the sync state is
\* not Synced after a creation in which one of the two calls failed.
C15_SyncedOnlyUnderCommittedRealId ==
    syncState.state = "synced" =>
       /\ ~IsTemp(syncState.kbId)
       /\ creation.outcome = "committed"
       /\ syncState.kbId = creation.real

----------------------------------------------------------------------------
(* Claims about the optimistic folder registry *)

\* the entries of kbId are registered with folder path /A and with no other path
OnlyARegistered(k) ==
    /\ \E i \in 1..Len(folderReg) : folderReg[i].kbId = k /\ folderReg[i].folderPath = PathA
    /\ \A i \in 1..Len(folderReg) : folderReg[i].kbId = k => folderReg[i].folderPath = PathA

\* neither the root cache nor a folder-status cache of kbId holds a record of the file
NoCacheHolds(f, k) ==
    /\ ~RefHasRecord(GetRootCache(k), f)
    /\ \A p \in LookupPaths : ~RefHasRecord(GetFolderCache(k, p), f)

\* C17: with /A registered as optimistic folder of kbId and the file in no cache (and
\* not deleted), resolveFileStatus computes Indexed for the folder paths /A and /A/B,
\* with or without the leading slash of the target, and Absent for /Z and for the
\* sibling /AB, which only shares the string prefix.
C17_DescendantPathsResolveIndexed ==
    \A f \in AllFileIds, k \in {RealId(1), TempId(1)} :
       (HookFresh /\ OnlyARegistered(k) /\ f \notin delReg /\ NoCacheHolds(f, k)) =>
          /\ \A p \in {PathA, PathAB, PathRelAB} :
                ~MemoHas(Key(f, k, p)) => resolveFileStatus(f, k, p) = "indexed"
          /\ \A p \in {PathZ, PathAside} :
                ~MemoHas(Key(f, k, p)) => resolveFileStatus(f, k, p) = Null

\* C17 witness: /A is registered for kb-1, the probe below it has returned Indexed,
\* and a row of a file that no cache holds is about to be resolved under /A
C17_Witness ==
    /\ HookFresh
    /\ OnlyARegistered(RealId(1))
    /\ "f1" \notin delReg
    /\ NoCacheHolds("f1", RealId(1))
    /\ NoCacheHolds("", RealId(1))
    /\ [key |-> Key("", RealId(1), PathAB), val |-> "indexed"] \in memo
    /\ ~MemoHas(Key("f1", RealId(1), PathA))
    /\ resolveFileStatus("f1", RealId(1), PathA) = "indexed"
    /\ resolveFileStatus("f1", RealId(1), PathAside) = Null

\* the entries of kbId that the render read and whose path is the target, with its
\* leading slash, or a prefix of it that ends where the target has a "/"
AncestorCandidates(k, p) ==
    LET t == Normalize(p)
        es == rend.folderEntries
    IN { es[i] : i \in { h \in 1..Len(es) :
                            /\ es[h].kbId = k
                            /\ Len(es[h].folderPath) <= Len(t)
                            /\ SubSeq(t, 1, Len(es[h].folderPath)) = es[h].folderPath
                            /\ (Len(t) > Len(es[h].folderPath)
                                   => t[Len(es[h].folderPath) + 1] = "/") } }

\* C18: getOptimisticAncestorFolder(kbId, path) returns an entry of that kbId whose
\* path matches the target and is the longest among the matching entries of the kbId,
\* in whatever order the entries were inserted; it returns null when no entry of the
\* kbId matches, and so never an entry of another kbId.
C18_AncestorIsLongestMatch ==
    \A k \in AllKbArgs, p \in AncestorTargets :
       LET r == getOptimisticAncestorFolder(rend.folderEntries, k, p)
           c == AncestorCandidates(k, p)
       IN IF c = {} THEN r = NoEntry
          ELSE /\ r \in c
               /\ r.kbId = k
               /\ \A e \in c : Len(e.folderPath) <= Len(r.folderPath)

\* C18 witness: the render read /A before /A/B for kb-1 and /A/B for temp-1; the target
\* /A/B/x yields the /A/B entry of kb-1, the target /Z none
C18_Witness ==
    /\ rend.folderEntries = folderReg
    /\ \E i, j, h \in 1..Len(folderReg) :
          /\ i < j
          /\ folderReg[i] = Entry(RealId(1), "d1", PathA)
          /\ folderReg[j] = Entry(RealId(1), "d2", PathAB)
          /\ folderReg[h] = Entry(TempId(1), "d2", PathAB)
    /\ \A i \in 1..Len(folderReg) : folderReg[i].folderPath # PathZ
    /\ getOptimisticAncestorFolder(rend.folderEntries, RealId(1), PathABx)
          = Entry(RealId(1), "d2", PathAB)
    /\ getOptimisticAncestorFolder(rend.folderEntries, RealId(1), PathZ) = NoEntry

----------------------------------------------------------------------------
(* Claims about the root poller *)

\* C19: the root poller issues a refetch only while there is a knowledge base, its id
\* is not a temporary id and polling has not been stopped for it; once polling has been
\* stopped (settled, empty, no files, timed out) no root refetch is issued until the
\* kbId changes.
C19_RefetchOnlyWhileEnabled ==
    [][ tick' # tick =>
          /\ pollKb # NoKB
          /\ ~IsTemp(pollKb)
          /\ stopped = "none" ]_vars

\* C19 witness: the knowledge base was created, the poller refetched its root listing
\* and then stopped because the files had settled
C19_Witness ==
    /\ pollKb = currentKB
    /\ pollKb \in RealIds
    /\ creation.outcome = "committed"
    /\ tick
    /\ stopped = "settled"
    /\ ~shouldPoll
    /\ GetRootCache(pollKb).data = <<Rec("f1", "error")>>

\* C20: at an observation of the filtered root listing made while polling is on and
\* the maximum poll duration has not passed, the poller stops if the listing has no
\* record or no file record, or if every file record is indexed or error and no folder
\* poll is active; otherwise it keeps polling; and when it stops because the files
\* settled, allFilesSettled is true.
C20_StopsExactlyWhenSettled ==
    [][ (seen' # seen /\ shouldPoll /\ ~pollExpired /\ pollKb # NoKB
            /\ filteredKbResources.present) =>
          LET resources == filteredKbResources.data
              files == FileRecords(resources)
              stops == \/ Len(resources) = 0
                       \/ Len(files) = 0
                       \/ /\ \A i \in 1..Len(files) : files[i].status \in {"indexed", "error"}
                          /\ ~folderPollingActive
          IN /\ shouldPoll' = ~stops
             /\ (stopped' = "settled" => allFilesSettled) ]_vars

----------------------------------------------------------------------------
----------------------------------------------------------------------------
\* C22: for each knowledge base, the root settlement check notifies an errored file of
\* the root listing exactly once: with the first observed listing that shows an
\* errored file the notification has been emitted, and it is never emitted twice
C22_RootErrorNotifiedOnce ==
    [][ /\ \A k \in KbIds : ToastCount(toasts', k, RootScope) <= 1
        /\ (seen' # seen /\ filteredKbResources.present
                /\ hasErrorFiles(filteredKbResources.data))
              => ToastCount(toasts', pollKb, RootScope) = 1 ]_vars

----------------------------------------------------------------------------
\* C24: at most MAX_CONCURRENT_POLLS per-folder poll requests of the file tree are in
\* flight at any time, whatever the interleaving of poll requests, reschedule timers
\* and answers
C24_AtMostTwoPollsInFlight == Len(treePolls) <= MAX_CONCURRENT_POLLS

----------------------------------------------------------------------------
\* some expected file is pending in a listing
PendingIn(ids, listing) ==
    \E i \in 1..Len(ids) : \E j \in 1..Len(listing) :
       listing[j].id = ids[i] /\ listing[j].status = "pending"

----------------------------------------------------------------------------
(* Claims about the prefetch *)

\* C25: the counter of usePrefetch equals the number of prefetch calls in flight, which
\* is never negative and never above MAX_CONCURRENT_PREFETCHES, in every interleaving
\* of hovering, leaving, viewport changes, answers and the hook's cleanup.
C25_CountIsInFlight ==
    /\ activeRequestCount = Len(prefetches)
    /\ activeRequestCount >= 0
    /\ Len(prefetches) <= MAX_CONCURRENT_PREFETCHES

\* C26: a prefetch call that was in flight when its folder left the viewport or the
\* pointer writes no listing to the cache when its request answers.
C26_LeftPrefetchWritesNothing ==
    [][ \A i \in 1..Len(prefetches), ok \in BOOLEAN :
           (PrefetchFetched(i, ok) /\ prefetches[i].left) => driveCache' = driveCache ]_vars

\* the first two parts of C26: a folder out of view has no pending timer and is not queued
C26_HiddenNotQueued ==
    \A folderId \in Folders \ visibleFolders :
        folderId \notin prefetchTimers /\ (\A k \in 1..Len(requestQueue) : requestQueue[k] # folderId)

----------------------------------------------------------------------------
(* Claims about the persistence *)

\* the value resolveFileStatus computes on a render that has read the store's registries
StoreStatus(fileId, kbId, folderPath) == ComputeStatusIn(Snapshot, fileId, kbId, folderPath)

\* C27: when the snapshot just persisted is the one the page is reloaded from, every
\* (fileId, kbId, folderPath) resolves on the restored store as it did on the store
\* before the reload.
C27_RoundTripKeepsStatuses ==
    [][ (Reload /\ \E kbId \in KbIds : storage = persistCacheToStorage(kbId, rootCache, folderCache, delReg, folderReg))
        => \A fileId \in Files, kbId \in KbIds, folderPath \in Paths :
              StoreStatus(fileId, kbId, folderPath)' = StoreStatus(fileId, kbId, folderPath) ]_vars

----------------------------------------------------------------------------
(* Claims about the store writers *)

\* C28: no store writer leaves its write for a later tick: once a writer has returned,
\* neither an increment of the optimistic-update counter nor a write-back of statuses
\* into a folder's raw listing is still waiting to be applied.
C28_NoBufferedWrite == ~rafPending /\ ~driveWrites

----------------------------------------------------------------------------
\* C29: in every reachable state every memoised result of resolveFileStatus equals
\* the value the precedence steps give for its (fileId, kbId, folderPath) on the store
\* as it is now: no memoised entry outlives a change of a registry or of a cache slot.
C29_MemoMatchesStore ==
    \A e \in memo : e.val = StoreStatus(e.key.f, e.key.k, e.key.p)

----------------------------------------------------------------------------
(* Claims about the notifications *)

\* C30: failed files are notified once per scope.  After a poll of a folder's chain
\* that lists one of its files as error or failed, exactly one notification has been
\* emitted for that folder path of the knowledge base, and after a root check that
\* sees an errored file exactly one for the root, whatever was notified for other scopes.
C30_OneNotificationPerScope ==
    [][ /\ \A c \in chains : \A listing \in ChainListings :
             (FolderPollFetched(c, listing) /\ ExpectedWith(c, listing, {"error", "failed"}))
                => ToastCount(toasts', c.kb, c.path) = 1
        /\ (ContinueOrStopEffect /\ filteredKbResources.present
                /\ hasErrorFiles(filteredKbResources.data))
              => ToastCount(toasts', pollKb, RootScope) = 1 ]_vars

----------------------------------------------------------------------------
\* the selected files are in the delete registry and in no record of the KB's root cache
MarkedAndRemoved(ids, kbId) ==
    \A j \in 1..Len(ids) :
        /\ ids[j] \in delReg
        /\ FindIndex(GetRootCache(kbId).data, ids[j]) = 0

\* C31: deleteSelectedFiles while the sync state is pending appends one request per
\* selected file, in order, and issues no deleteKBResource call; otherwise it issues one
\* direct call per selected file and the queue stays as it is.  In both cases the
\* selected files are in the optimistic delete registry and gone from the root cache.
C31_QueuedWhilePendingElseDirect ==
    [][ \A ids \in DeleteChoices :
          /\ DeleteWhilePending(ids) =>
                /\ Len(queue') = Len(queue) + Len(ids)
                /\ SubSeq(queue', 1, Len(queue)) = queue
                /\ \A j \in 1..Len(ids) : queue'[Len(queue) + j].fileId = ids[j]
                /\ calls' = calls /\ directCalls' = directCalls
                /\ MarkedAndRemoved(ids, view.kb)'
          /\ DeleteDirect(ids) =>
                /\ queue' = queue
                /\ calls' = calls
                /\ Len(directCalls') = Len(directCalls) + Len(ids)
                /\ \A j \in 1..Len(ids) :
                      directCalls'[Len(directCalls) + j] =
                          [kbId |-> view.kb, path |-> <<"/">> \o NameOf(ids[j])]
                /\ MarkedAndRemoved(ids, view.kb)' ]_vars

\* files were deleted both ways, and the root cache of the KB holds none of them
C31_Witness ==
    /\ Len(enqueued) > 0 /\ Len(directCalls) > 0
    /\ \E e \in rootCache : e.k = currentKB /\ \A f \in delReg : FindIndex(e.data, f) = 0
    /\ delReg # {}

----------------------------------------------------------------------------
\* C32: once the sync state is synced with requests in the queue, the queue is
\* eventually empty with processing false, whether the deletion calls succeed or fail;
\* and requests in the queue after the creation has finished (committed or rolled back)
\* do not stay there for ever.
C32_QueueEventuallyDrained ==
    /\ (syncState.state = "synced" /\ Len(queue) > 0) ~> (Len(queue) = 0 /\ ~processing)
    /\ (creation.outcome # "none" /\ creation.pc = "idle" /\ Len(queue) > 0) ~> (Len(queue) = 0)

----------------------------------------------------------------------------
\* C33: a drain issues the call for its next request only when the one-second delay
\* after the previous call has elapsed, whether that call succeeded or failed: every
\* step in which a drain moves on to its next request is taken from the delay.
C33_DelayBetweenCalls ==
    [][ \A i \in 1..Len(drains) :
          (Len(drains') = Len(drains) /\ drains'[i].idx = drains[i].idx + 1)
              => drains[i].pc = "delay" ]_vars

----------------------------------------------------------------------------
\* number of polls in flight for a folder
PollsOf(polls, folderId) == Cardinality({i \in 1..Len(polls) : polls[i].folder = folderId})

\* C34: a queued poll request whose folder is no longer expanded when a slot frees is
\* skipped: a step that starts the fetch of a folder that was waiting in the poll queue
\* is a step for an expanded folder.
C34_CollapsedFolderNotPolled ==
    [][ \A d \in Folders :
          ( /\ \E k \in 1..Len(pollQueue) : pollQueue[k] = d
            /\ PollsOf(treePolls', d) > PollsOf(treePolls, d) )
              => d \in expandedFolders ]_vars

----------------------------------------------------------------------------
\* C35: the delayed polling effect empties the deferred set; when the timer it set for
\* a deferred folder of an optimistic subtree fires, a poll of that folder is in flight
\* or queued; and while the creation is in flight no per-folder poll is in flight,
\* queued or timed.
C35_DeferredFoldersPolledAfterCommit ==
    /\ [][ /\ DelayedPollingEffect => delayedPollingFolders' = {}
           /\ \A d \in Folders :
                 PollTimerFired(d) =>
                    \/ PollsOf(treePolls', d) > 0
                    \/ \E k \in 1..Len(pollQueue') : pollQueue'[k] = d ]_vars
    /\ [](creation.pc # "idle" =>
             Len(treePolls) = 0 /\ Len(pollQueue) = 0 /\ pollTimers = {})

----------------------------------------------------------------------------
\* C36: when a poll of a folder finds no expected file pending any more, the registry
\* holds no optimistic entry of that folder afterwards, so that a path in the folder is
\* no longer a descendant of an optimistic folder by that entry.
C36_ConfirmedFolderLeavesRegistry ==
    [][ \A c \in chains : \A listing \in ChainListings :
          (FolderPollFetched(c, listing) /\ ~ExpectedWith(c, listing, {"pending"}))
             => \A i \in 1..Len(folderReg') :
                   ~(folderReg'[i].kbId = c.kb /\ folderReg'[i].folderPath = c.path) ]_vars

----------------------------------------------------------------------------
\* C37: after a folder is registered, the registry holds exactly one entry under its
\* key, and the folderPath of that entry is the folder path getFolderPathFromFileName
\* gives for a file directly inside the folder, whatever the folder's name.
C37_StoredPathIsPathOfItsFiles ==
    [][ \A folderId \in {"d1", "d2"} : \A folderName \in FolderNames :
          RegisterNamedFolder(RealId(1), folderId, folderName) =>
             /\ Cardinality({i \in 1..Len(folderReg') :
                    folderReg'[i].kbId = RealId(1) /\ folderReg'[i].folderId = folderId}) = 1
             /\ folderReg'[KeyIndex(folderReg', RealId(1), folderId)].folderPath =
                    getFolderPathFromFileName(folderName \o <<"/", "a", ".", "a">>) ]_vars
\* C38: the root poller stops for timeout only when MAX_POLL_DURATION has passed since
\* polling of the polled knowledge base was enabled, also for a knowledge base created
\* long after the mount of the hook
C38_TimeoutMeasuredFromKbStart ==
    [][ (stopped' = "timeout" /\ stopped # "timeout" /\ shouldEnablePolling(pollKb, shouldPoll))
          => kbPollExpired ]_vars

----------------------------------------------------------------------------
\* number of requests waiting in the poll queue for a folder
QueuedFor(folderId) == Cardinality({k \in 1..Len(pollQueue) : pollQueue[k] = folderId})

\* C39: for any folder there is at most one per-folder poll queued or in flight: the
\* poll queue holds no two requests for the folder, no two fetches of the folder overlap,
\* and a folder whose fetch is in flight is not queued.
C39_OnePollPerFolder ==
    \A d \in Folders : PollsOf(treePolls, d) + QueuedFor(d) <= 1

----------------------------------------------------------------------------
\* C40: an optimistic write of toggleFolder replaces no status the backend confirmed: a
\* file that resolves to error (or failed) before the listing of an expanded folder is
\* handled resolves to the same status after it.
C40_ConfirmedStatusSurvivesReexpand ==
    [][ (\E t \in toggles : ToggleFolderFetched(t))
          => \A fileId \in Files, kbId \in KbIds, folderPath \in Paths :
                StoreStatus(fileId, kbId, folderPath) \in {"error", "failed"}
                   => StoreStatus(fileId, kbId, folderPath)' = StoreStatus(fileId, kbId, folderPath) ]_vars

====
